---- MODULE Spec2Model ----
(***************************************************************************)
(* CLI Stock Tracker: the persistent cache (cache.py), the ticker          *)
(* aggregator (finnhub_client.py), the live price table                    *)
(* (websocket_client.py) and the mode orchestrator (main.py: normal        *)
(* "one-shot" mode, daemon mode and watch mode).                           *)
(*                                                                         *)
(* Nine specifications are defined over the same variables:                *)
(*   CacheSpec       the cache functions called directly with inputs drawn *)
(*                   from bounded sets, the clock moving in sub-second     *)
(*                   ticks;                                                *)
(*   Spec            a sequence of program invocations (normal mode with   *)
(*                   or without --refresh, daemon mode until it is killed) *)
(*                   over one cache file;                                  *)
(*   DaemonLiveSpec  one daemon that is never killed, with weak fairness;  *)
(*   WatchSpec       main() with every flag, an empty or non-empty ticker  *)
(*                   list and the credential set or not, and watch mode    *)
(*                   with trades arriving from the streaming thread;       *)
(*   AggSpec         the aggregator functions called directly with every   *)
(*                   combination of client responses;                      *)
(*   FaultSpec       the cache functions and one-shot runs over a file     *)
(*                   that may be unreadable or malformed, with writes      *)
(*                   that may fail;                                        *)
(*   StreamSpec      one watch-mode session past its setup: the streaming  *)
(*                   thread (connect, subscribe, receive, store, fail,     *)
(*                   sleep, reconnect) and the render loop, interleaved    *)
(*                   statement by statement around the table's lock;       *)
(*   StreamLiveSpec  the same session with fairness, on a smaller feed;    *)
(*   ThreadSpec      threads calling update_cache and save_cache at the    *)
(*                   same time.                                            *)
(***************************************************************************)
EXTENDS Integers, Sequences, FiniteSets, TLC

VARIABLES
    cacheFile,   \* contents of cache.json on disk
    now,         \* the UTC clock, in ticks of 1/TicksPerSec second
    lastCall,    \* CacheSpec: the last direct call of a cache function
    settings,    \* settings.json as load_settings returns it
    tickers,     \* tickers.json as load_tickers returns it
    pc,          \* position of the running invocation of main()
    args,        \* parsed command line flags of the invocation
    idx,         \* loop position in `for ticker_obj in tickers`
    data,        \* normal mode: the list `data`
    failed_refreshes, \* normal mode: the list `failed_refreshes`
    calls,       \* calls made so far in this run (normal) or cycle (daemon)
    out,         \* what this invocation has rendered/printed, in order
    wake,        \* clock value at which the current time.sleep ends
    api_key,     \* the environment variable FINNHUB_API_KEY
    latest_prices, \* websocket_client.py: the module's dict latest_prices
    static_data, \* watch mode: the dict `static_data`
    watchInterval, \* watch mode: the local `interval`, once chosen
    ws,          \* the streaming thread started by start_websocket
    threads,     \* ThreadSpec: the threads of one process that call cache.py
    cache_lock,  \* cache.py: the module's Lock: its holder, or None
    lock,        \* websocket_client.py: the module's Lock: its holder, or None
    listener,    \* StreamSpec: position and locals of websocket_listener
    received,    \* history: the last trade received for each ticker
    fresh        \* history: the last tick stored for each ticker since the
                 \* render loop last went to sleep, and whether it was
                 \* stored during that sleep

vars == <<cacheFile, now, lastCall, settings, tickers, pc, args, idx, data,
          failed_refreshes, calls, out, wake, api_key, latest_prices,
          static_data, watchInterval, ws, threads, cache_lock, lock,
          listener, received, fresh>>

\* the in-process callers of cache.py and the lock they share
threadVars == <<threads, cache_lock>>

\* the configuration files and the environment, which no mode writes
config == <<settings, tickers, api_key>>

\* the streaming thread's position, the lock of the live price table, and
\* the history of the ticks
streamVars == <<lock, listener, received, fresh>>

\* the state of a watch-mode session
watchVars == <<latest_prices, static_data, watchInterval, ws, streamVars>>

\* the state of one invocation
runVars == <<pc, args, idx, data, failed_refreshes, calls, out, wake>>

----------------------------------------------------------------------------
(* Bounds of the model *)

\* clock resolution: ticks per second (the clock is a float in the code)
TicksPerSec == 2
\* the clock is sampled at most this many seconds past a whole minute
MaxOffset == 2
\* longest configured ticker list
MaxTickers == 2

(* Program constants *)

\* `interval * 60`: minutes to seconds
SecPerMin == 60
\* time.sleep(1) between two tickers of a daemon cycle
DaemonPauseSec == 1

----------------------------------------------------------------------------
(* Python values *)

\* Optional values: None, or a present value
None == <<>>
Some(v) == <<v>>

\* dict.get(key): the value, or None when the key is missing
DictGet(d, k) == IF k \in DOMAIN d THEN d[k] ELSE None

\* d[k] = v on a dict
DictSet(d, k, v) == [x \in (DOMAIN d) \cup {k} |-> IF x = k THEN v ELSE d[x]]

EmptyDict == <<>>

\* the fields of a record that hold plain strings; every other field of a
\* record is an optional value (float | str | None)
StringFields == {"ticker", "message"}

----------------------------------------------------------------------------
(* JSON (json.dump / json.load of cache.json) *)

\* None written as the number 0 instead of null
C2Mut_JsonOfValue(x) == IF x = None THEN <<"lit", 0>> ELSE <<"lit", x[1]>>

\* None is written as null, a present value as its literal
JsonOfValue(x) == IF x = None THEN <<"null">> ELSE <<"lit", x[1]>>
ValueOfJson(j) == IF j[1] = "null" THEN None ELSE Some(j[2])

JsonOfRecord(d) ==
    [k \in DOMAIN d |-> IF k \in StringFields THEN d[k] ELSE JsonOfValue(d[k])]
RecordOfJson(j) ==
    [k \in DOMAIN j |-> IF k \in StringFields THEN j[k] ELSE ValueOfJson(j[k])]

\* json.dump(cache_dict): {ticker: {"data": {...}, "timestamp": int}}
\* an entry is written and read key by key, whichever keys it has
JsonDump(cache) ==
    [t \in DOMAIN cache |->
        [k \in DOMAIN cache[t] |->
            IF k = "data" THEN JsonOfRecord(cache[t][k]) ELSE cache[t][k]]]
JsonLoad(obj) ==
    [t \in DOMAIN obj |->
        [k \in DOMAIN obj[t] |->
            IF k = "data" THEN RecordOfJson(obj[t][k]) ELSE obj[t][k]]]

\* what json.load returns for a file that holds a JSON array
JsonArray == [pytype |-> "list"]

----------------------------------------------------------------------------
(* cache.py *)

\* cache.json is one of
\*   [kind |-> "absent"]        no such file,
\*   [kind |-> "unreadable"]    open() raises IOError,
\*   [kind |-> "invalid_json"]  text that is not a JSON document (an empty
\*                              or cut-off file included),
\*   [kind |-> "not_text"]      bytes that do not decode as text,
\*   [kind |-> "array"]         a JSON document that is an array,
\*   [kind |-> "object", obj |-> ...]  a JSON object
NoFile == [kind |-> "absent"]

\* load_cache(): {} when the file does not exist, cannot be opened or is
\* not JSON, else whatever json.load returned.  For a file that is not
\* text json.load raises UnicodeDecodeError, which is not caught: see
\* load_cache_outcome
load_cache(file) ==
    IF file.kind \in {"absent", "unreadable", "invalid_json"} THEN EmptyDict
    ELSE IF file.kind = "array" THEN JsonArray
    ELSE JsonLoad(file.obj)

\* save_cache(cache_dict): the file after the whole-file rewrite
save_cache(cache_dict) == [kind |-> "object", obj |-> JsonDump(cache_dict)]

\* datetime.now(timezone.utc).timestamp() is the clock in seconds (a float);
\* int() of it truncates to whole seconds
IntTimestamp(clock) == clock \div TicksPerSec

\* age = now - entry["timestamp"], kept in ticks
AgeTicks(clock, entry) == clock - entry.timestamp * TicksPerSec

\* a strict comparison in place of `age <= interval * 60`
C1Mut_IsFresh(clock, entry, interval) ==
    AgeTicks(clock, entry) < interval * SecPerMin * TicksPerSec

\* age <= interval * 60
IsFresh(clock, entry, interval) ==
    AgeTicks(clock, entry) <= interval * SecPerMin * TicksPerSec

\* get_cached_data(ticker, interval) -> Optional[dict]
get_cached_data(file, clock, ticker, interval) ==
    LET cache == load_cache(file)
        entry == DictGet(cache, ticker)
    IN  IF entry = None THEN None
        ELSE IF IsFresh(clock, entry, interval) THEN Some(entry.data)
        ELSE None

\* get_cached_data_unchecked(ticker) -> Optional[dict]
get_cached_data_unchecked(file, ticker) ==
    LET cache == load_cache(file)
        entry == DictGet(cache, ticker)
    IN  IF entry # None THEN Some(entry.data) ELSE None

\* the new entry is saved alone
C37Mut_update_cache(file, clock, ticker, payload) ==
    save_cache(DictSet(EmptyDict, ticker,
                       [data |-> payload, timestamp |-> IntTimestamp(clock)]))

\* update_cache(ticker, data): the file after load, assignment and save
update_cache(file, clock, ticker, payload) ==
    LET cache == load_cache(file)
        entry == [data |-> payload, timestamp |-> IntTimestamp(clock)]
    IN  save_cache(DictSet(cache, ticker, entry))

----------------------------------------------------------------------------
(* finnhub_client.py: the gateway wrappers and the aggregator *)

\* A response of the Finnhub client to one request:
\*   [status |-> "ok", body |-> ...]  the decoded response,
\*   [status |-> "api_error"]         finnhub.FinnhubAPIException is raised,
\*   [status |-> "error"]             any other exception is raised
\*                                    (connection error, timeout, ...).
ApiError == [status |-> "api_error"]
OtherError == [status |-> "error"]
Ok(body) == [status |-> "ok", body |-> body]

\* What a function call does: return a value, or raise
Return(v) == [kind |-> "return", value |-> v]
Raise == [kind |-> "raise"]

\* an empty quote in place of None on FinnhubAPIException
C21Mut_get_quote(resp) ==
    IF resp.status = "ok" THEN Return(Some(resp.body))
    ELSE IF resp.status = "api_error" THEN Return(Some(EmptyDict))
    ELSE Raise

\* get_quote: the quote, None on FinnhubAPIException
get_quote(resp) ==
    IF resp.status = "ok" THEN Return(Some(resp.body))
    ELSE IF resp.status = "api_error" THEN Return(None)
    ELSE Raise

\* get_profile: profile.get('name'), None on FinnhubAPIException
get_profile(resp) ==
    IF resp.status = "ok" THEN Return(DictGet(resp.body, "name"))
    ELSE IF resp.status = "api_error" THEN Return(None)
    ELSE Raise

\* all three metrics are dropped when one of them is missing
C36Mut_get_financials(resp) ==
    IF resp.status = "ok"
    THEN LET metrics == IF "metric" \in DOMAIN resp.body
                        THEN resp.body.metric ELSE EmptyDict
             complete == /\ DictGet(metrics, "epsTTM") # None
                         /\ DictGet(metrics, "peTTM") # None
                         /\ DictGet(metrics, "currentDividendYieldTTM") # None
         IN  IF complete
             THEN Return(Some([eps |-> metrics.epsTTM, pe |-> metrics.peTTM,
                               dividend |-> metrics.currentDividendYieldTTM]))
             ELSE Return(Some([eps |-> None, pe |-> None, dividend |-> None]))
    ELSE IF resp.status = "api_error" THEN Return(None)
    ELSE Raise

\* get_financials: the three metrics of financials.get('metric', {}),
\* None on FinnhubAPIException
get_financials(resp) ==
    IF resp.status = "ok"
    THEN LET metrics == IF "metric" \in DOMAIN resp.body
                        THEN resp.body.metric ELSE EmptyDict
         IN  Return(Some([eps |-> DictGet(metrics, "epsTTM"),
                          pe |-> DictGet(metrics, "peTTM"),
                          dividend |-> DictGet(metrics, "currentDividendYieldTTM")]))
    ELSE IF resp.status = "api_error" THEN Return(None)
    ELSE Raise

\* get_ytd_price / get_ten_year_price: the first close of the candle window
\* when data['s'] == 'ok' and data['c'] is not empty, else None
FirstClose(resp) ==
    IF resp.status = "ok"
    THEN IF resp.body.s = "ok" /\ Len(resp.body.c) > 0
         THEN Return(Some(resp.body.c[1]))
         ELSE Return(None)
    ELSE IF resp.status = "api_error" THEN Return(None)
    ELSE Raise

get_ytd_price(resp) == FirstClose(resp)
get_ten_year_price(resp) == FirstClose(resp)

\* ((current - base) / base) * 100, None when an operand is missing or the
\* base is 0.  Prices are integers chosen so that the division is exact.
PctChange(current, base) ==
    IF current # None /\ base # None /\ base[1] # 0
    THEN Some(((current[1] - base[1]) * 100) \div base[1])
    ELSE None

\* one guard for the three changes: all None unless every base is usable
C25Mut_calculate_changes(quote, ytd_price, ten_year_price) ==
    IF quote = None THEN <<None, None, None>>
    ELSE LET current_price == DictGet(quote[1], "c")
             previous_close == DictGet(quote[1], "pc")
             usable(b) == b # None /\ b[1] # 0
         IN  IF usable(previous_close) /\ usable(ytd_price) /\ usable(ten_year_price)
             THEN <<PctChange(current_price, previous_close),
                    PctChange(current_price, ytd_price),
                    PctChange(current_price, ten_year_price)>>
             ELSE <<None, None, None>>

\* calculate_changes(quote, ytd_price, ten_year_price)
calculate_changes(quote, ytd_price, ten_year_price) ==
    IF quote = None THEN <<None, None, None>>
    ELSE LET current_price == DictGet(quote[1], "c")
             previous_close == DictGet(quote[1], "pc")
         IN  <<PctChange(current_price, previous_close),
               PctChange(current_price, ytd_price),
               PctChange(current_price, ten_year_price)>>

FailureRecord(ticker) == [ticker |-> ticker, message |-> "Data unavailable"]

\* the failure variant looked for under the wrong key
C3Mut_IsFailure(record) == "error" \in DOMAIN record

\* "message" in data
IsFailure(record) == "message" \in DOMAIN record

\* the profile is looked up for every ticker and its name is the one used
C23Mut_fetch_ticker_data(ticker_obj, sett, gw) ==
    LET ticker == ticker_obj.ticker
        user_name == ticker_obj.name
        quote == get_quote(gw.quote)
        needProfile == TRUE
        profile == IF needProfile THEN get_profile(gw.profile) ELSE Return(user_name)
        financials == get_financials(gw.financials)
        wantYtd == sett.columns.ytd_change
        ytd == IF wantYtd THEN get_ytd_price(gw.ytd) ELSE Return(None)
        wantTen == sett.columns.ten_year_change
        ten == IF wantTen THEN get_ten_year_price(gw.ten_year) ELSE Return(None)
        r1 == <<"quote">>
        r2 == r1 \o (IF needProfile THEN <<"profile">> ELSE <<>>)
        r3 == r2 \o <<"financials">>
        r4 == r3 \o (IF wantYtd THEN <<"ytd_candles">> ELSE <<>>)
        r5 == r4 \o (IF wantTen THEN <<"ten_year_candles">> ELSE <<>>)
        With(res, reqs) == [kind |-> res.kind, value |-> res.value, requests |-> reqs]
        Fails(reqs) == [kind |-> "raise", requests |-> reqs]
    IN  IF quote.kind = "raise" THEN Fails(r1)
        ELSE IF quote.value = None THEN With(Return(FailureRecord(ticker)), r1)
        ELSE IF profile.kind = "raise" THEN Fails(r2)
        ELSE IF financials.kind = "raise" THEN Fails(r3)
        ELSE IF ytd.kind = "raise" THEN Fails(r4)
        ELSE IF ten.kind = "raise" THEN Fails(r5)
        ELSE LET changes == calculate_changes(quote.value, ytd.value, ten.value)
                 fin == financials.value
             IN  With(Return(
                   [ticker |-> ticker,
                    company_name |-> profile.value,
                    current_price |-> DictGet(quote.value[1], "c"),
                    eps |-> IF fin # None THEN fin[1].eps ELSE None,
                    pe_ratio |-> IF fin # None THEN fin[1].pe ELSE None,
                    dividend |-> IF fin # None THEN fin[1].dividend ELSE None,
                    daily_change |-> changes[1],
                    ytd_change |-> changes[2],
                    ten_year_change |-> changes[3]]), r5)

\* fetch_ticker_data(client, ticker_obj, settings), the client answering
\* with the responses gw.  The result is Return(record) or Raise, with the
\* gateway requests made, in order, in .requests
fetch_ticker_data(ticker_obj, sett, gw) ==
    LET ticker == ticker_obj.ticker
        user_name == ticker_obj.name
        quote == get_quote(gw.quote)
        needProfile == user_name = None
        profile == IF needProfile THEN get_profile(gw.profile) ELSE Return(user_name)
        financials == get_financials(gw.financials)
        wantYtd == sett.columns.ytd_change
        ytd == IF wantYtd THEN get_ytd_price(gw.ytd) ELSE Return(None)
        wantTen == sett.columns.ten_year_change
        ten == IF wantTen THEN get_ten_year_price(gw.ten_year) ELSE Return(None)
        r1 == <<"quote">>
        r2 == r1 \o (IF needProfile THEN <<"profile">> ELSE <<>>)
        r3 == r2 \o <<"financials">>
        r4 == r3 \o (IF wantYtd THEN <<"ytd_candles">> ELSE <<>>)
        r5 == r4 \o (IF wantTen THEN <<"ten_year_candles">> ELSE <<>>)
        With(res, reqs) == [kind |-> res.kind, value |-> res.value, requests |-> reqs]
        Fails(reqs) == [kind |-> "raise", requests |-> reqs]
    IN  IF quote.kind = "raise" THEN Fails(r1)
        ELSE IF quote.value = None THEN With(Return(FailureRecord(ticker)), r1)
        ELSE IF profile.kind = "raise" THEN Fails(r2)
        ELSE IF financials.kind = "raise" THEN Fails(r3)
        ELSE IF ytd.kind = "raise" THEN Fails(r4)
        ELSE IF ten.kind = "raise" THEN Fails(r5)
        ELSE LET changes == calculate_changes(quote.value, ytd.value, ten.value)
                 fin == financials.value
             IN  With(Return(
                   [ticker |-> ticker,
                    company_name |-> profile.value,
                    current_price |-> DictGet(quote.value[1], "c"),
                    eps |-> IF fin # None THEN fin[1].eps ELSE None,
                    pe_ratio |-> IF fin # None THEN fin[1].pe ELSE None,
                    dividend |-> IF fin # None THEN fin[1].dividend ELSE None,
                    daily_change |-> changes[1],
                    ytd_change |-> changes[2],
                    ten_year_change |-> changes[3]]), r5)

\* the ten-year close is requested whatever the setting
C24Mut_fetch_static_data(ticker_obj, sett, gw) ==
    LET ticker == ticker_obj.ticker
        user_name == ticker_obj.name
        quote == get_quote(gw.quote)
        needProfile == user_name = None
        profile == IF needProfile THEN get_profile(gw.profile) ELSE Return(user_name)
        financials == get_financials(gw.financials)
        wantYtd == sett.columns.ytd_change
        ytd == IF wantYtd THEN get_ytd_price(gw.ytd) ELSE Return(None)
        wantTen == TRUE
        ten == IF wantTen THEN get_ten_year_price(gw.ten_year) ELSE Return(None)
        r1 == <<"quote">>
        r2 == r1 \o (IF needProfile THEN <<"profile">> ELSE <<>>)
        r3 == r2 \o <<"financials">>
        r4 == r3 \o (IF wantYtd THEN <<"ytd_candles">> ELSE <<>>)
        r5 == r4 \o (IF wantTen THEN <<"ten_year_candles">> ELSE <<>>)
        With(res, reqs) == [kind |-> res.kind, value |-> res.value, requests |-> reqs]
        Fails(reqs) == [kind |-> "raise", requests |-> reqs]
    IN  IF quote.kind = "raise" THEN Fails(r1)
        ELSE IF quote.value = None THEN With(Return(FailureRecord(ticker)), r1)
        ELSE IF profile.kind = "raise" THEN Fails(r2)
        ELSE IF financials.kind = "raise" THEN Fails(r3)
        ELSE IF ytd.kind = "raise" THEN Fails(r4)
        ELSE IF ten.kind = "raise" THEN Fails(r5)
        ELSE LET fin == financials.value
             IN  With(Return(
                   [ticker |-> ticker,
                    company_name |-> profile.value,
                    pc |-> DictGet(quote.value[1], "pc"),
                    initial_current_price |-> DictGet(quote.value[1], "c"),
                    eps |-> IF fin # None THEN fin[1].eps ELSE None,
                    pe_ratio |-> IF fin # None THEN fin[1].pe ELSE None,
                    dividend |-> IF fin # None THEN fin[1].dividend ELSE None,
                    ytd_price |-> ytd.value,
                    ten_year_price |-> ten.value]), r5)

\* fetch_static_data(client, ticker_obj, settings), the client answering with
\* the responses gw: Return(record) or Raise, as fetch_ticker_data
fetch_static_data(ticker_obj, sett, gw) ==
    LET ticker == ticker_obj.ticker
        user_name == ticker_obj.name
        quote == get_quote(gw.quote)
        needProfile == user_name = None
        profile == IF needProfile THEN get_profile(gw.profile) ELSE Return(user_name)
        financials == get_financials(gw.financials)
        wantYtd == sett.columns.ytd_change
        ytd == IF wantYtd THEN get_ytd_price(gw.ytd) ELSE Return(None)
        wantTen == sett.columns.ten_year_change
        ten == IF wantTen THEN get_ten_year_price(gw.ten_year) ELSE Return(None)
        r1 == <<"quote">>
        r2 == r1 \o (IF needProfile THEN <<"profile">> ELSE <<>>)
        r3 == r2 \o <<"financials">>
        r4 == r3 \o (IF wantYtd THEN <<"ytd_candles">> ELSE <<>>)
        r5 == r4 \o (IF wantTen THEN <<"ten_year_candles">> ELSE <<>>)
        With(res, reqs) == [kind |-> res.kind, value |-> res.value, requests |-> reqs]
        Fails(reqs) == [kind |-> "raise", requests |-> reqs]
    IN  IF quote.kind = "raise" THEN Fails(r1)
        ELSE IF quote.value = None THEN With(Return(FailureRecord(ticker)), r1)
        ELSE IF profile.kind = "raise" THEN Fails(r2)
        ELSE IF financials.kind = "raise" THEN Fails(r3)
        ELSE IF ytd.kind = "raise" THEN Fails(r4)
        ELSE IF ten.kind = "raise" THEN Fails(r5)
        ELSE LET fin == financials.value
             IN  With(Return(
                   [ticker |-> ticker,
                    company_name |-> profile.value,
                    pc |-> DictGet(quote.value[1], "pc"),
                    initial_current_price |-> DictGet(quote.value[1], "c"),
                    eps |-> IF fin # None THEN fin[1].eps ELSE None,
                    pe_ratio |-> IF fin # None THEN fin[1].pe ELSE None,
                    dividend |-> IF fin # None THEN fin[1].dividend ELSE None,
                    ytd_price |-> ytd.value,
                    ten_year_price |-> ten.value]), r5)

----------------------------------------------------------------------------
(* Inputs *)

Symbols == {"AAPL", "MSFT"}

\* load_tickers: {"ticker": str, "name": str | None}; AAPL is configured
\* without a name, MSFT with one
TickerObj(sym) ==
    [ticker |-> sym, name |-> IF sym = "MSFT" THEN Some("Microsoft") ELSE None]

RECURSIVE ListsUpTo(_)
ListsUpTo(n) ==
    IF n = 0 THEN {<<>>}
    ELSE LET shorter == ListsUpTo(n - 1)
         IN  shorter \cup {Append(l, TickerObj(sym)) : l \in shorter, sym \in Symbols}

\* the non-empty ticker lists (main returns early on an empty list)
TickerLists == ListsUpTo(MaxTickers) \ {<<>>}

\* cache.interval settings, in minutes
Intervals == {1}

SettingsChoices ==
    {[columns |-> [ytd_change |-> TRUE, ten_year_change |-> FALSE],
      cache |-> [enabled |-> e, interval |-> iv]] :
        e \in BOOLEAN, iv \in Intervals}

ArgChoices == [refresh : BOOLEAN, daemon : BOOLEAN]

\* The client's answers to the requests of one fetch
GwUnavailable ==
    [quote |-> ApiError, profile |-> ApiError, financials |-> ApiError,
     ytd |-> ApiError, ten_year |-> ApiError]
GwFull ==
    [quote |-> Ok([c |-> Some(110), pc |-> Some(100)]),
     profile |-> Ok([name |-> Some("Apple Inc")]),
     financials |-> Ok([metric |-> [epsTTM |-> Some(6), peTTM |-> Some(30),
                                    currentDividendYieldTTM |-> Some(1)]]),
     ytd |-> Ok([s |-> "ok", c |-> <<88, 90>>]),
     ten_year |-> Ok([s |-> "ok", c |-> <<55>>])]
GwPartial ==
    [quote |-> Ok([c |-> Some(120), pc |-> Some(0)]),
     profile |-> ApiError,
     financials |-> ApiError,
     ytd |-> Ok([s |-> "no_data", c |-> <<>>]),
     ten_year |-> ApiError]
GwBroken ==
    [quote |-> OtherError, profile |-> OtherError, financials |-> OtherError,
     ytd |-> OtherError, ten_year |-> OtherError]

\* the answers the orchestrator is run against
GatewayCases == {GwUnavailable, GwFull, GwBroken}

----------------------------------------------------------------------------
(* The clock *)

IntervalTicks(interval) == interval * SecPerMin * TicksPerSec

\* the longest configured interval
LongestInterval == CHOOSE i \in Intervals : \A j \in Intervals : j <= i

\* the clock is followed for one interval, and within MaxOffset seconds after
\* a whole number of minutes
InWindow(clock) ==
    /\ clock <= IntervalTicks(LongestInterval) + MaxOffset * TicksPerSec
    /\ clock % (SecPerMin * TicksPerSec) <= MaxOffset * TicksPerSec

\* time passes: d ticks
Advance(d) ==
    /\ InWindow(now + d)
    /\ now' = now + d

\* Spec: time passes in whole seconds or whole minutes
AdvanceClock ==
    /\ \E d \in {TicksPerSec, SecPerMin * TicksPerSec} : Advance(d)
    /\ UNCHANGED <<cacheFile, lastCall, config, threadVars,
                   watchVars, runVars>>

----------------------------------------------------------------------------
(* main.py: startup *)

NoArgs == [refresh |-> FALSE, daemon |-> FALSE]

\* no invocation is running
Idle ==
    /\ pc = "idle"
    /\ args = NoArgs
    /\ idx = 1
    /\ data = <<>>
    /\ failed_refreshes = <<>>
    /\ calls = <<>>
    /\ out = <<>>
    /\ wake = 0

\* no watch-mode session: the module globals of websocket_client.py as
\* they are when the module is imported, and no streaming thread
NoSession ==
    /\ latest_prices = EmptyDict
    /\ static_data = EmptyDict
    /\ watchInterval = None
    /\ ws = [state |-> "off"]
    /\ lock = None
    /\ listener = [pc |-> "off"]
    /\ received = EmptyDict
    /\ fresh = EmptyDict

\* no thread besides the main one calls cache.py, and the lock is free
NoThreads ==
    /\ threads = <<>>
    /\ cache_lock = None

Init ==
    /\ cacheFile = NoFile
    /\ now = 0
    /\ lastCall = [op |-> "none"]
    /\ settings \in SettingsChoices
    /\ tickers \in TickerLists
    /\ api_key = Some("key")
    /\ Idle
    /\ NoSession
    /\ NoThreads

\* the invocation's process is gone and its variables with it
Reset ==
    /\ pc' = "idle"
    /\ args' = NoArgs
    /\ idx' = 1
    /\ data' = <<>>
    /\ failed_refreshes' = <<>>
    /\ calls' = <<>>
    /\ out' = <<>>
    /\ wake' = 0

\* main(): parse the flags, load settings and tickers, choose the mode
Start(a) ==
    /\ pc = "idle"
    /\ args' = a
    /\ pc' = IF a.daemon THEN "daemon_loop" ELSE "normal_loop"
    /\ UNCHANGED <<cacheFile, now, lastCall, config, threadVars,
                   watchVars, idx, data,
                   failed_refreshes, calls, out, wake>>

\* the process of a finished invocation is gone: main() has returned, or an
\* exception has propagated out of it
Exit ==
    /\ pc \in {"normal_done", "crashed"}
    /\ Reset
    /\ UNCHANGED <<cacheFile, now, lastCall, config, threadVars, watchVars>>

----------------------------------------------------------------------------
(* main.py: normal mode *)

\* One entry of the call trace: function, loop position, ticker, and the
\* value returned (reads, fetch) or passed (update_cache)
Call(name, pos, ticker, val) ==
    [fn |-> name, pos |-> pos, ticker |-> ticker, val |-> val]

\* --refresh ignored
C7Mut_ConsultsCache(sett, a) == sett.cache.enabled

\* `if cache_enabled and not args.refresh:` (main.py 218)
ConsultsCache(sett, a) == sett.cache.enabled /\ ~a.refresh

\* the entry is re-stamped when it is used
C4Mut_NormalHit(file, clock, ticker, pos, cached) ==
    [file |-> update_cache(file, clock, ticker, cached[1]),
     rows |-> <<cached[1]>>, failed |-> <<>>,
     calls |-> <<Call("get_cached_data", pos, ticker, cached),
                 Call("update_cache", pos, ticker, cached[1])>>,
     pc |-> "normal_loop"]

\* main.py 220-223: the fresh entry is used and the loop continues
NormalHit(file, clock, ticker, pos, cached) ==
    [file |-> file, rows |-> <<cached[1]>>, failed |-> <<>>,
     calls |-> <<Call("get_cached_data", pos, ticker, cached)>>,
     pc |-> "normal_loop"]

\* no fallback to the stale entry
C5Mut_FailureRows(cache_enabled, stale, failure) == <<failure>>

\* a failed ticker without a stale entry is logged but not appended
C6Mut_FailureRows(cache_enabled, stale, failure) ==
    IF cache_enabled /\ stale # None THEN <<stale[1]>> ELSE <<>>

\* the stale entry used although caching is disabled
C8Mut_FailureRows(cache_enabled, stale, failure) ==
    IF stale # None THEN <<stale[1]>> ELSE <<failure>>

\* main.py 229-244: the rows appended for a ticker whose fetch failed, given
\* what get_cached_data_unchecked returned
FailureRows(cache_enabled, stale, failure) ==
    IF cache_enabled /\ stale # None THEN <<stale[1]>> ELSE <<failure>>

\* main.py 224-244: fetch, then cache the result or fall back
NormalMiss(file, clock, ticker_obj, sett, pos, gw) ==
    LET ticker == ticker_obj.ticker
        cache_enabled == sett.cache.enabled
        fetched == fetch_ticker_data(ticker_obj, sett, gw)
        c1 == <<Call("fetch_ticker_data", pos, ticker, fetched)>>
        stale == get_cached_data_unchecked(file, ticker)
    IN  IF fetched.kind = "raise"
        THEN [file |-> file, rows |-> <<>>, failed |-> <<>>, calls |-> c1,
              pc |-> "crashed"]
        ELSE IF ~IsFailure(fetched.value)
        THEN [file |-> IF cache_enabled
                       THEN update_cache(file, clock, ticker, fetched.value)
                       ELSE file,
              rows |-> <<fetched.value>>, failed |-> <<>>,
              calls |-> c1 \o (IF cache_enabled
                               THEN <<Call("update_cache", pos, ticker, fetched.value)>>
                               ELSE <<>>),
              pc |-> "normal_loop"]
        ELSE [file |-> file,
              rows |-> FailureRows(cache_enabled, stale, fetched.value),
              failed |-> IF cache_enabled /\ stale # None THEN <<ticker>> ELSE <<>>,
              calls |-> c1 \o (IF cache_enabled
                               THEN <<Call("get_cached_data_unchecked", pos, ticker, stale)>>
                               ELSE <<>>),
              pc |-> "normal_loop"]

\* One iteration of `for ticker_obj in tickers` (main.py 216-244), the
\* client answering with gw: the new file, the rows and tickers appended to
\* `data` and `failed_refreshes`, the calls made, and where control goes
NormalBody(file, clock, ticker_obj, sett, a, pos, gw) ==
    LET ticker == ticker_obj.ticker
        consult == ConsultsCache(sett, a)
        cached == get_cached_data(file, clock, ticker, sett.cache.interval)
        miss == NormalMiss(file, clock, ticker_obj, sett, pos, gw)
    IN  IF consult /\ cached # None
        THEN NormalHit(file, clock, ticker, pos, cached)
        ELSE IF consult
        THEN [miss EXCEPT !.calls =
                    <<Call("get_cached_data", pos, ticker, cached)>> \o @]
        ELSE miss

\* the loop does not move on to the next ticker
C39Mut_NormalIteration(gw) ==
    /\ pc = "normal_loop"
    /\ idx <= Len(tickers)
    /\ LET r == NormalBody(cacheFile, now, tickers[idx], settings, args, idx, gw)
       IN  /\ cacheFile' = r.file
           /\ data' = data \o r.rows
           /\ failed_refreshes' = failed_refreshes \o r.failed
           /\ calls' = calls \o r.calls
           /\ pc' = r.pc
           /\ idx' = idx
    /\ UNCHANGED <<now, lastCall, config, threadVars, watchVars,
                   args, out, wake>>

NormalIteration(gw) ==
    /\ pc = "normal_loop"
    /\ idx <= Len(tickers)
    /\ LET r == NormalBody(cacheFile, now, tickers[idx], settings, args, idx, gw)
       IN  /\ cacheFile' = r.file
           /\ data' = data \o r.rows
           /\ failed_refreshes' = failed_refreshes \o r.failed
           /\ calls' = calls \o r.calls
           /\ pc' = r.pc
           /\ idx' = IF r.pc = "normal_loop" THEN idx + 1 ELSE idx
    /\ UNCHANGED <<now, lastCall, config, threadVars, watchVars,
                   args, out, wake>>

\* display_table(data, settings) after the loop
NormalDisplay ==
    /\ pc = "normal_loop"
    /\ idx > Len(tickers)
    /\ out' = Append(out, [kind |-> "table", rows |-> data])
    /\ pc' = "normal_warn"
    /\ UNCHANGED <<cacheFile, now, lastCall, config, threadVars,
                   watchVars, args, idx,
                   data, failed_refreshes, calls, wake>>

\* the warning printed whether or not a ticker fell back
C9Mut_NormalWarn ==
    /\ pc = "normal_warn"
    /\ out' = Append(out, [kind |-> "warning", tickers |-> failed_refreshes])
    /\ pc' = "normal_done"
    /\ UNCHANGED <<cacheFile, now, lastCall, config, threadVars,
                   watchVars, args, idx,
                   data, failed_refreshes, calls, wake>>

\* `if failed_refreshes:` the warning and one line per ticker; then return
NormalWarn ==
    /\ pc = "normal_warn"
    /\ out' = IF failed_refreshes # <<>>
              THEN Append(out, [kind |-> "warning", tickers |-> failed_refreshes])
              ELSE out
    /\ pc' = "normal_done"
    /\ UNCHANGED <<cacheFile, now, lastCall, config, threadVars,
                   watchVars, args, idx,
                   data, failed_refreshes, calls, wake>>

----------------------------------------------------------------------------
(* main.py: daemon_mode *)

\* the cache written only when caching is enabled
C10Mut_DaemonBody(file, clock, ticker_obj, pos, sett, gw) ==
    LET ticker == ticker_obj.ticker
        fetched == fetch_ticker_data(ticker_obj, sett, gw)
        c1 == <<Call("fetch_ticker_data", pos, ticker, fetched)>>
    IN  IF fetched.kind = "raise" \/ IsFailure(fetched.value) \/ ~sett.cache.enabled
        THEN [file |-> file, calls |-> c1]
        ELSE [file |-> update_cache(file, clock, ticker, fetched.value),
              calls |-> c1 \o <<Call("update_cache", pos, ticker, fetched.value)>>]

\* The body of one `for ticker_obj in tickers` iteration of daemon_mode up to
\* the sleep (main.py 62-74): the new file and the calls made.  An exception
\* is caught and logged (main.py 73-74).
DaemonBody(file, clock, ticker_obj, pos, sett, gw) ==
    LET ticker == ticker_obj.ticker
        fetched == fetch_ticker_data(ticker_obj, sett, gw)
        c1 == <<Call("fetch_ticker_data", pos, ticker, fetched)>>
    IN  IF fetched.kind = "raise"
        THEN [file |-> file, calls |-> c1]
        ELSE IF IsFailure(fetched.value)
        THEN [file |-> file, calls |-> c1]
        ELSE [file |-> update_cache(file, clock, ticker, fetched.value),
              calls |-> c1 \o <<Call("update_cache", pos, ticker, fetched.value)>>]

\* the exception of a fetch is not caught: it propagates out of daemon_mode
C11Mut_DaemonIteration(gw) ==
    /\ pc = "daemon_loop"
    /\ idx <= Len(tickers)
    /\ LET r == DaemonBody(cacheFile, now, tickers[idx], idx, settings, gw)
       IN  /\ cacheFile' = r.file
           /\ calls' = calls \o r.calls
           /\ pc' = IF r.calls[1].val.kind = "raise"
                    THEN "crashed" ELSE "daemon_pause"
    /\ wake' = now + DaemonPauseSec * TicksPerSec
    /\ UNCHANGED <<now, lastCall, config, threadVars, watchVars,
                   args, idx, data,
                   failed_refreshes, out>>

DaemonIteration(gw) ==
    /\ pc = "daemon_loop"
    /\ idx <= Len(tickers)
    /\ LET r == DaemonBody(cacheFile, now, tickers[idx], idx, settings, gw)
       IN  /\ cacheFile' = r.file
           /\ calls' = calls \o r.calls
    /\ wake' = now + DaemonPauseSec * TicksPerSec
    /\ pc' = "daemon_pause"
    /\ UNCHANGED <<now, lastCall, config, threadVars, watchVars,
                   args, idx, data,
                   failed_refreshes, out>>

\* the next ticker is taken without the pause
C38Mut_DaemonPauseEnd ==
    /\ pc = "daemon_pause"
    /\ idx' = idx + 1
    /\ pc' = "daemon_loop"
    /\ UNCHANGED <<cacheFile, now, lastCall, config, threadVars,
                   watchVars, args, data,
                   failed_refreshes, calls, out, wake>>

\* time.sleep(1) returns
DaemonPauseEnd ==
    /\ pc = "daemon_pause"
    /\ now >= wake
    /\ idx' = idx + 1
    /\ pc' = "daemon_loop"
    /\ UNCHANGED <<cacheFile, now, lastCall, config, threadVars,
                   watchVars, args, data,
                   failed_refreshes, calls, out, wake>>

\* the for loop is over: time.sleep(interval)
DaemonCycleEnd ==
    /\ pc = "daemon_loop"
    /\ idx > Len(tickers)
    /\ wake' = now + IntervalTicks(settings.cache.interval)
    /\ pc' = "daemon_sleep"
    /\ UNCHANGED <<cacheFile, now, lastCall, config, threadVars,
                   watchVars, args, idx,
                   data, failed_refreshes, calls, out>>

\* time.sleep(interval) returns: the next `while True` pass
DaemonWake ==
    /\ pc = "daemon_sleep"
    /\ now >= wake
    /\ idx' = 1
    /\ calls' = <<>>
    /\ pc' = "daemon_loop"
    /\ UNCHANGED <<cacheFile, now, lastCall, config, threadVars,
                   watchVars, args, data,
                   failed_refreshes, out, wake>>

DaemonRunning == pc \in {"daemon_loop", "daemon_pause", "daemon_sleep"}

\* the daemon has no exit: the process is terminated from outside
KillDaemon ==
    /\ DaemonRunning
    /\ Reset
    /\ UNCHANGED <<cacheFile, now, lastCall, config, threadVars, watchVars>>

----------------------------------------------------------------------------
Next ==
    \/ \E a \in ArgChoices : Start(a)
    \/ Exit
    \/ \E gw \in GatewayCases : NormalIteration(gw)
    \/ NormalDisplay
    \/ NormalWarn
    \/ \E gw \in GatewayCases : DaemonIteration(gw)
    \/ DaemonPauseEnd
    \/ DaemonCycleEnd
    \/ DaemonWake
    \/ KillDaemon
    \/ AdvanceClock

Spec == Init /\ [][Next]_vars

----------------------------------------------------------------------------
(* CacheSpec: the functions of cache.py called directly *)

\* payloads handed to update_cache: two success records (one with None
\* fields) and a failure record
DirectPayloads ==
    {fetch_ticker_data(TickerObj("AAPL"), s, gw).value :
        s \in SettingsChoices, gw \in {GwFull, GwPartial, GwUnavailable}}

\* `interval` arguments of get_cached_data, in minutes
DirectIntervals == {0, 1}

CacheInit ==
    /\ Init
    /\ tickers = <<TickerObj("AAPL")>>
    /\ settings.cache.enabled

DirectUpdate(t, p) ==
    /\ cacheFile' = update_cache(cacheFile, now, t, p)
    /\ lastCall' = [op |-> "update_cache", ticker |-> t, payload |-> p]
    /\ UNCHANGED <<now, config, threadVars, watchVars, runVars>>

DirectGet(t, iv) ==
    /\ lastCall' = [op |-> "get_cached_data", ticker |-> t, interval |-> iv,
                    ret |-> get_cached_data(cacheFile, now, t, iv)]
    /\ UNCHANGED <<cacheFile, now, config, threadVars, watchVars, runVars>>

\* .after is the update_cache call this read directly follows, if any
DirectGetUnchecked(t) ==
    /\ lastCall' = [op |-> "get_cached_data_unchecked", ticker |-> t,
                    ret |-> get_cached_data_unchecked(cacheFile, t),
                    after |-> IF lastCall.op = "update_cache"
                              THEN Some(lastCall) ELSE None]
    /\ UNCHANGED <<cacheFile, now, config, threadVars, watchVars, runVars>>

\* time passes: a fraction of a second, or a whole interval
DirectAdvance ==
    /\ \E d \in {1} \cup {IntervalTicks(iv) : iv \in DirectIntervals \ {0}} :
          Advance(d)
    /\ UNCHANGED <<cacheFile, lastCall, config, threadVars,
                   watchVars, runVars>>

CacheNext ==
    \/ \E t \in Symbols, p \in DirectPayloads : DirectUpdate(t, p)
    \/ \E t \in Symbols, iv \in DirectIntervals : DirectGet(t, iv)
    \/ \E t \in Symbols : DirectGetUnchecked(t)
    \/ DirectAdvance

CacheSpec == CacheInit /\ [][CacheNext]_vars

----------------------------------------------------------------------------
(* DaemonLiveSpec: one daemon that is never killed, followed for ever *)

\* The program reads the clock only to take differences (cache.py 102 and
\* the durations of time.sleep), so what it does is the same when the origin
\* of the clock moves.  DaemonLiveSpec keeps the origin at the present
\* instant: when a sleep of s seconds elapses, `now` stays and every stored
\* timestamp and the end of the sleep move s seconds into the past.  An
\* entry older than AgeCap seconds is kept at that age, which is stale for
\* every configured interval.
AgeCap == LongestInterval * SecPerMin + MaxOffset + 1

ShiftOrigin(file, clock, secs) ==
    IF file.kind = "absent" THEN file
    ELSE [kind |-> "object",
          obj |-> [t \in DOMAIN file.obj |->
                    [data |-> file.obj[t].data,
                     timestamp |->
                        LET moved == file.obj[t].timestamp - secs
                            oldest == IntTimestamp(clock) - AgeCap
                        IN  IF moved < oldest THEN oldest ELSE moved]]]

\* the running time.sleep(1) or time.sleep(interval) elapses
SleepElapse ==
    /\ pc \in {"daemon_pause", "daemon_sleep"}
    /\ now < wake
    /\ cacheFile' = ShiftOrigin(cacheFile, now, (wake - now) \div TicksPerSec)
    /\ wake' = now
    /\ UNCHANGED <<now, lastCall, config, threadVars, watchVars, pc,
                   args, idx, data,
                   failed_refreshes, calls, out>>

DaemonLiveNext ==
    \/ \E a \in {x \in ArgChoices : x.daemon} : Start(a)
    \/ \E gw \in GatewayCases : DaemonIteration(gw)
    \/ DaemonPauseEnd
    \/ DaemonCycleEnd
    \/ DaemonWake
    \/ SleepElapse

\* the daemon is one thread that keeps running, and every sleep returns
DaemonLiveSpec == Init /\ [][DaemonLiveNext]_vars /\ WF_vars(DaemonLiveNext)

----------------------------------------------------------------------------
(* main.py: startup with every flag, and watch mode (WatchSpec) *)

\* settings["watch_interval"], in seconds (load_settings makes it a
\* positive float)
WatchIntervals == {1}

\* --interval: absent, a positive value, a value that is not positive
CliIntervals == {None, Some(2), Some(0)}

\* prices delivered by the streaming feed
LivePrices == {90, 121}

WatchSettings ==
    {[columns |-> s.columns, cache |-> s.cache, watch_interval |-> w] :
        s \in {x \in SettingsChoices : ~x.cache.enabled}, w \in WatchIntervals}

\* every combination of --refresh, --daemon and --watch; --interval is given
\* with --watch alone
MainArgChoices ==
    {a \in [refresh : BOOLEAN, daemon : BOOLEAN, watch : BOOLEAN,
            interval : CliIntervals] :
        a.interval # None => (a.watch /\ ~a.daemon /\ ~a.refresh)}

\* FINNHUB_API_KEY: unset, set to the empty string, set
ApiKeys == {None, Some(""), Some("key")}

\* `not api_key`
Falsy(key) == key = None \/ key = Some("")

NoTickersText == "No tickers to process."
NoKeyText == "FINNHUB_API_KEY environment variable is not set."
NoKeyWatchText == "FINNHUB_API_KEY is not set."
IntervalWarningText == "Interval must be positive. Using settings value."
StoppingText == "Stopping watch mode."

\* the empty ticker list is not reported and the missing key is left to the
\* mode
C20Mut_ConfigCheck(tl, key) == "ok"

\* main.py 113-124: the checks between loading the configuration and the
\* mode: "ok", or the text of the error printed before main returns
ConfigCheck(tl, key) ==
    IF tl = <<>> THEN NoTickersText
    ELSE IF Falsy(key) THEN NoKeyText
    ELSE "ok"

\* --daemon and --watch given together start no mode
C19Mut_ModeEntry(a) ==
    IF a.daemon /\ ~a.watch THEN "daemon_loop"
    ELSE IF a.watch /\ ~a.daemon THEN "watch_start"
    ELSE IF ~a.daemon /\ ~a.watch THEN "normal_loop"
    ELSE "main_returned"

\* main.py 126-129, 210: if args.daemon / elif args.watch / else
ModeEntry(a) ==
    IF a.daemon THEN "daemon_loop"
    ELSE IF a.watch THEN "watch_start"
    ELSE "normal_loop"

\* main(): parse the flags, load the configuration, check it, initialize the
\* client and enter the mode (main.py 93-129)
Main(a) ==
    /\ pc = "idle"
    /\ args' = a
    /\ LET check == ConfigCheck(tickers, api_key)
       IN  /\ pc' = IF check = "ok" THEN ModeEntry(a) ELSE "main_returned"
           /\ out' = IF check = "ok" THEN out
                     ELSE <<[kind |-> "error", text |-> check]>>
           /\ calls' = IF check = NoTickersText THEN calls
                       ELSE <<Call("initialize_client", 0, "",
                                   IF check = "ok" THEN Return(api_key) ELSE Raise)>>
    /\ UNCHANGED <<cacheFile, now, lastCall, config, threadVars,
                   watchVars, idx, data,
                   failed_refreshes, wake>>

\* a value that is not positive is used as it is given
C16Mut_ChooseInterval(a, sett) ==
    IF a.interval # None
    THEN [interval |-> a.interval[1], warned |-> FALSE]
    ELSE [interval |-> sett.watch_interval, warned |-> FALSE]

\* main.py 131-146: the sleep between two renders, and whether the warning
\* is printed
ChooseInterval(a, sett) ==
    IF a.interval # None
    THEN IF a.interval[1] > 0
         THEN [interval |-> a.interval[1], warned |-> FALSE]
         ELSE [interval |-> sett.watch_interval, warned |-> TRUE]
    ELSE [interval |-> sett.watch_interval, warned |-> FALSE]

\* [ticker_obj["ticker"] for ticker_obj in tickers]
SymbolsOf(tl) == [i \in 1..Len(tl) |-> tl[i].ticker]

\* main.py 131-154: choose the interval, read the key, start the streaming
\* thread
WatchSetup ==
    /\ pc = "watch_start"
    /\ LET chosen == ChooseInterval(args, settings)
           warning == IF chosen.warned
                      THEN <<[kind |-> "warning", text |-> IntervalWarningText]>>
                      ELSE <<>>
       IN  /\ watchInterval' = Some(chosen.interval)
           /\ IF Falsy(api_key)
              THEN /\ out' = out \o warning
                               \o <<[kind |-> "error", text |-> NoKeyWatchText]>>
                   /\ pc' = "main_returned"
                   /\ UNCHANGED <<ws, calls>>
              ELSE /\ out' = out \o warning
                   /\ ws' = [state |-> "running", tickers |-> SymbolsOf(tickers),
                             api_key |-> api_key[1]]
                   /\ calls' = Append(calls,
                                 Call("start_websocket", 0, "",
                                      [tickers |-> SymbolsOf(tickers),
                                       api_key |-> api_key[1]]))
                   /\ pc' = "watch_static"
    /\ idx' = 1
    /\ UNCHANGED <<cacheFile, now, lastCall, config, threadVars, latest_prices,
                   static_data, streamVars, args, data, failed_refreshes,
                   wake>>

\* main.py 158-161: one fetch_static_data of the dict comprehension; an
\* exception propagates out of main
WatchFetchStatic(gw) ==
    /\ pc = "watch_static"
    /\ idx <= Len(tickers)
    /\ LET ticker == tickers[idx].ticker
           r == fetch_static_data(tickers[idx], settings, gw)
       IN  /\ calls' = Append(calls, Call("fetch_static_data", idx, ticker, r))
           /\ IF r.kind = "raise"
              THEN /\ pc' = "crashed"
                   /\ UNCHANGED <<static_data, idx>>
              ELSE /\ static_data' = DictSet(static_data, ticker, r.value)
                   /\ idx' = idx + 1
                   /\ pc' = pc
    /\ UNCHANGED <<cacheFile, now, lastCall, config, threadVars, latest_prices,
                   watchInterval, ws, streamVars, args, data,
                   failed_refreshes, out, wake>>

\* main.py 165: the console is created and the render loop entered
WatchConsole ==
    /\ pc = "watch_static"
    /\ idx > Len(tickers)
    /\ pc' = "watch_clear"
    /\ UNCHANGED <<cacheFile, now, lastCall, config, threadVars,
                   watchVars, args, idx,
                   data, failed_refreshes, calls, out, wake>>

\* main.py 170-171: console.clear() empties the screen; data = []
WatchClear ==
    /\ pc = "watch_clear"
    /\ out' = <<>>
    /\ data' = <<>>
    /\ idx' = 1
    /\ pc' = "watch_build"
    /\ UNCHANGED <<cacheFile, now, lastCall, config, threadVars,
                   watchVars, args,
                   failed_refreshes, calls, wake>>

\* get_latest_price(ticker): latest_prices.get(ticker)
get_latest_price(table, ticker) == DictGet(table, ticker)

\* the snapshot's price whatever the table holds
C13Mut_CurrentPrice(latest_price, static) == static.initial_current_price

\* no fallback to the snapshot's price
C35Mut_CurrentPrice(latest_price, static) == latest_price

\* main.py 180-184
CurrentPrice(latest_price, static) ==
    IF latest_price # None THEN latest_price ELSE static.initial_current_price

\* a failed snapshot gets a row as soon as the table holds a price for it
C15Mut_WatchRow(static, table) ==
    IF IsFailure(static) /\ get_latest_price(table, static.ticker) = None
    THEN static
    ELSE [ticker |-> static.ticker,
          company_name |-> None,
          current_price |-> get_latest_price(table, static.ticker),
          eps |-> None, pe_ratio |-> None, dividend |-> None,
          daily_change |-> None, ytd_change |-> None, ten_year_change |-> None]

\* main.py 175-203: the row of one ticker in a render pass
WatchRow(static, table) ==
    IF IsFailure(static) THEN static
    ELSE LET latest_price == get_latest_price(table, static.ticker)
             current_price == CurrentPrice(latest_price, static)
             quote == Some([c |-> current_price, pc |-> static.pc])
             changes == calculate_changes(quote, static.ytd_price,
                                          static.ten_year_price)
         IN  [ticker |-> static.ticker,
              company_name |-> static.company_name,
              current_price |-> current_price,
              eps |-> static.eps,
              pe_ratio |-> static.pe_ratio,
              dividend |-> static.dividend,
              daily_change |-> changes[1],
              ytd_change |-> changes[2],
              ten_year_change |-> changes[3]]

\* main.py 172-203: one iteration of `for ticker_obj in tickers`
WatchBuildRow ==
    /\ pc = "watch_build"
    /\ idx <= Len(tickers)
    /\ data' = Append(data, WatchRow(static_data[tickers[idx].ticker],
                                     latest_prices))
    /\ idx' = idx + 1
    /\ UNCHANGED <<cacheFile, now, lastCall, config, threadVars,
                   watchVars, pc, args,
                   failed_refreshes, calls, out, wake>>

\* main.py 204-205: display_table, then time.sleep(interval) begins
WatchDisplay ==
    /\ pc = "watch_build"
    /\ idx > Len(tickers)
    /\ out' = Append(out, [kind |-> "table", rows |-> data])
    /\ wake' = now + watchInterval[1] * TicksPerSec
    /\ pc' = "watch_sleep"
    /\ UNCHANGED <<cacheFile, now, lastCall, config, threadVars,
                   watchVars, args, idx,
                   data, failed_refreshes, calls>>

\* the sleep is taken for a render that has not happened yet
C14Mut_WatchSleepEnd ==
    /\ pc = "watch_sleep"
    /\ now >= wake
    /\ pc' = "watch_static"
    /\ idx' = 1
    /\ UNCHANGED <<cacheFile, now, lastCall, config, threadVars,
                   watchVars, args,
                   data, failed_refreshes, calls, out, wake>>

\* time.sleep(interval) returns: the next `while True` pass
WatchSleepEnd ==
    /\ pc = "watch_sleep"
    /\ now >= wake
    /\ pc' = "watch_clear"
    /\ idx' = idx
    /\ UNCHANGED <<cacheFile, now, lastCall, config, threadVars,
                   watchVars, args,
                   data, failed_refreshes, calls, out, wake>>

\* where main() is between `elif args.watch` and the render loop, and
\* inside the try block of the render loop
WatchSetupPcs == {"watch_start", "watch_static"}
WatchLoopPcs == {"watch_clear", "watch_build", "watch_sleep"}

\* an interrupt during the sleep is not caught
C17Mut_WatchInterrupt ==
    /\ pc \in WatchSetupPcs \cup WatchLoopPcs
    /\ IF pc \in WatchLoopPcs \ {"watch_sleep"}
       THEN /\ out' = Append(out, [kind |-> "stopped", text |-> StoppingText])
            /\ pc' = "watch_stopped"
       ELSE /\ out' = out
            /\ pc' = "interrupted"
    /\ UNCHANGED <<cacheFile, now, lastCall, config, threadVars,
                   watchVars, args, idx,
                   data, failed_refreshes, calls, wake>>

\* KeyboardInterrupt (Ctrl+C).  Inside the render loop's try block it is
\* caught: a message is printed and the loop left (main.py 206-209).  The
\* setup (main.py 131-165) is in no try block: the exception propagates out
\* of main.
WatchInterrupt ==
    /\ pc \in WatchSetupPcs \cup WatchLoopPcs
    /\ IF pc \in WatchLoopPcs
       THEN /\ out' = Append(out, [kind |-> "stopped", text |-> StoppingText])
            /\ pc' = "watch_stopped"
       ELSE /\ out' = out
            /\ pc' = "interrupted"
    /\ UNCHANGED <<cacheFile, now, lastCall, config, threadVars,
                   watchVars, args, idx,
                   data, failed_refreshes, calls, wake>>

\* websocket_client.py 53-61: a trade of a subscribed symbol is received and
\* stored
WsTrade(sym, p) ==
    /\ ws.state = "running"
    /\ \E i \in 1..Len(ws.tickers) : ws.tickers[i] = sym
    /\ latest_prices' = DictSet(latest_prices, sym, Some(p))
    /\ UNCHANGED <<cacheFile, now, lastCall, config, threadVars, static_data,
                   watchInterval, ws, streamVars, runVars>>

\* the process is gone, and the streaming thread (a daemon thread) and the
\* module's globals with it: main() has returned or an exception has left
\* it; a mode that WatchSpec does not follow (normal, daemon) has ended or
\* has been killed
ProcessGone ==
    /\ pc \in {"main_returned", "watch_stopped", "crashed", "interrupted",
               "normal_loop", "daemon_loop"}
    /\ Reset
    /\ latest_prices' = EmptyDict
    /\ static_data' = EmptyDict
    /\ watchInterval' = None
    /\ ws' = [state |-> "off"]
    /\ UNCHANGED <<cacheFile, now, lastCall, config, threadVars, streamVars>>

\* WatchSpec: a second passes while the render loop sleeps
WatchTick ==
    /\ pc = "watch_sleep"
    /\ Advance(TicksPerSec)
    /\ UNCHANGED <<cacheFile, lastCall, config, threadVars,
                   watchVars, runVars>>

WatchInit ==
    /\ cacheFile = NoFile
    /\ now = 0
    /\ lastCall = [op |-> "none"]
    /\ settings \in WatchSettings
    /\ tickers \in ListsUpTo(MaxTickers)
    /\ api_key \in ApiKeys
    /\ Idle
    /\ NoSession
    /\ NoThreads

WatchNext ==
    \/ \E a \in MainArgChoices : Main(a)
    \/ WatchSetup
    \/ \E gw \in GatewayCases : WatchFetchStatic(gw)
    \/ WatchConsole
    \/ WatchClear
    \/ WatchBuildRow
    \/ WatchDisplay
    \/ WatchSleepEnd
    \/ WatchInterrupt
    \/ \E sym \in Symbols, p \in LivePrices : WsTrade(sym, p)
    \/ ProcessGone
    \/ WatchTick

WatchSpec == WatchInit /\ [][WatchNext]_vars

----------------------------------------------------------------------------
(* StreamSpec: one watch-mode session past its setup, the streaming thread  *)
(* (websocket_client.py) and the render loop (main.py 168-205) taking their *)
(* steps in any order                                                       *)

\* time.sleep(5) after a failure of the connection
ReconnectDelaySec == 5

WebsocketErrorText == "Websocket error"

\* the trades a message can carry: {"s": symbol, "p": price}
Trades == [s : Symbols, p : LivePrices]

\* the messages of the feed: a ping, a trade message with one trade, a trade
\* message with two trades of different prices for the same or for
\* different symbols
StreamMessages ==
    {[type |-> "ping"]}
        \cup {[type |-> "trade", data |-> <<a>>] : a \in Trades}
        \cup {m \in {[type |-> "trade", data |-> <<a, b>>] :
                        a \in Trades, b \in Trades} :
                m.data[1].p # m.data[2].p}

\* the feed of StreamLiveSpec
LiveMessages ==
    {[type |-> "ping"],
     [type |-> "trade", data |-> <<[s |-> "AAPL", p |-> 90]>>]}

\* history: the price of the last trade for each symbol of a list of trades,
\* over what was received before
RECURSIVE LastTrades(_, _)
LastTrades(before, trades) ==
    IF trades = <<>> THEN before
    ELSE LET n == Len(trades)
             rest == LastTrades(before, SubSeq(trades, 1, n - 1))
         IN  DictSet(rest, trades[n].s, Some(trades[n].p))

\* the session the setup of main.py 131-165 leaves: the thread started, one
\* snapshot per ticker, the render loop about to begin its first pass
StreamInit ==
    /\ cacheFile = NoFile
    /\ now = 0
    /\ lastCall = [op |-> "none"]
    /\ settings \in WatchSettings
    /\ tickers = <<TickerObj("AAPL"), TickerObj("MSFT")>>
    /\ api_key = Some("key")
    /\ NoThreads
    /\ args = [refresh |-> FALSE, daemon |-> FALSE, watch |-> TRUE,
               interval |-> None]
    /\ \E gw \in {GwFull, GwUnavailable} :
         LET first == fetch_static_data(tickers[1], settings, GwFull)
             second == fetch_static_data(tickers[2], settings, gw)
         IN  /\ static_data = DictSet(DictSet(EmptyDict, "AAPL", first.value),
                                      "MSFT", second.value)
             /\ calls = <<Call("start_websocket", 0, "",
                               [tickers |-> SymbolsOf(tickers),
                                api_key |-> api_key[1]]),
                          Call("fetch_static_data", 1, "AAPL", first),
                          Call("fetch_static_data", 2, "MSFT", second)>>
    /\ watchInterval = Some(settings.watch_interval)
    /\ ws = [state |-> "running", tickers |-> SymbolsOf(tickers),
             api_key |-> api_key[1]]
    /\ latest_prices = EmptyDict
    /\ pc = "watch_clear"
    /\ idx = 3
    /\ data = <<>>
    /\ failed_refreshes = <<>>
    /\ out = <<>>
    /\ wake = 0
    /\ lock = None
    /\ listener = [pc |-> "connect", sent |-> <<>>, pending |-> <<>>, wake |-> 0]
    /\ received = EmptyDict
    /\ fresh = EmptyDict

\* websocket_client.py 46: websockets.connect(uri) opens a connection, on
\* which nothing has been sent
WsConnect ==
    /\ listener.pc = "connect"
    /\ listener' = [listener EXCEPT
                      !.pc = IF ws.tickers = <<>> THEN "recv" ELSE "subscribe",
                      !.sent = <<>>]
    /\ UNCHANGED <<cacheFile, now, lastCall, config, threadVars, latest_prices,
                   static_data, watchInterval, ws, lock, received, fresh,
                   runVars>>

\* websocket_client.py 48-51: one iteration of `for ticker in tickers`: the
\* subscribe message of the next symbol is sent
WsSubscribe ==
    /\ listener.pc = "subscribe"
    /\ LET sent == Append(listener.sent, ws.tickers[Len(listener.sent) + 1])
       IN  listener' = [listener EXCEPT
                          !.sent = sent,
                          !.pc = IF Len(sent) = Len(ws.tickers)
                                 THEN "recv" ELSE "subscribe"]
    /\ UNCHANGED <<cacheFile, now, lastCall, config, threadVars, latest_prices,
                   static_data, watchInterval, ws, lock, received, fresh,
                   runVars>>

\* nothing is received while the render loop sleeps
C33Mut_WsRecv(m) ==
    /\ listener.pc = "recv"
    /\ pc # "watch_sleep"
    /\ IF m.type = "trade"
       THEN /\ listener' = [listener EXCEPT !.pc = "trade", !.pending = m.data]
            /\ received' = LastTrades(received, m.data)
       ELSE UNCHANGED <<listener, received>>
    /\ UNCHANGED <<cacheFile, now, lastCall, config, threadVars, latest_prices,
                   static_data, watchInterval, ws, lock, fresh, runVars>>

\* websocket_client.py 54-58: a message is received and parsed; the trades
\* of a trade message are what the for loop goes through
WsRecv(m) ==
    /\ listener.pc = "recv"
    /\ IF m.type = "trade"
       THEN /\ listener' = [listener EXCEPT !.pc = "trade", !.pending = m.data]
            /\ received' = LastTrades(received, m.data)
       ELSE UNCHANGED <<listener, received>>
    /\ UNCHANGED <<cacheFile, now, lastCall, config, threadVars, latest_prices,
                   static_data, watchInterval, ws, lock, fresh, runVars>>

\* websocket_client.py 60: `with lock:` blocks until the lock is free, then
\* holds it
WsAcquire ==
    /\ listener.pc = "trade"
    /\ lock = None
    /\ lock' = Some("listener")
    /\ listener' = [listener EXCEPT !.pc = "set"]
    /\ UNCHANGED <<cacheFile, now, lastCall, config, threadVars, latest_prices,
                   static_data, watchInterval, ws, received, fresh, runVars>>

\* the first price stored for a ticker is kept
C31Mut_WsSet ==
    /\ listener.pc = "set"
    /\ LET trade == Head(listener.pending)
           rest == Tail(listener.pending)
       IN  /\ latest_prices' = IF trade.s \in DOMAIN latest_prices
                               THEN latest_prices
                               ELSE DictSet(latest_prices, trade.s, Some(trade.p))
           /\ fresh' = DictSet(fresh, trade.s,
                               Some([p |-> trade.p,
                                     asleep |-> pc = "watch_sleep"]))
           /\ listener' = [listener EXCEPT
                             !.pending = rest,
                             !.pc = IF rest = <<>> THEN "recv" ELSE "trade"]
    /\ lock' = None
    /\ UNCHANGED <<cacheFile, now, lastCall, config, threadVars, static_data,
                   watchInterval, ws, received, runVars>>

\* websocket_client.py 61: latest_prices[ticker] = price, the end of the with
\* block, and the next trade of the message or the next recv
WsSet ==
    /\ listener.pc = "set"
    /\ LET trade == Head(listener.pending)
           rest == Tail(listener.pending)
       IN  /\ latest_prices' = DictSet(latest_prices, trade.s, Some(trade.p))
           /\ fresh' = DictSet(fresh, trade.s,
                               Some([p |-> trade.p,
                                     asleep |-> pc = "watch_sleep"]))
           /\ listener' = [listener EXCEPT
                             !.pending = rest,
                             !.pc = IF rest = <<>> THEN "recv" ELSE "trade"]
    /\ lock' = None
    /\ UNCHANGED <<cacheFile, now, lastCall, config, threadVars, static_data,
                   watchInterval, ws, received, runVars>>

\* the table is emptied when the connection fails
C40Mut_WsFail ==
    /\ listener.pc \in {"connect", "subscribe", "recv"}
    /\ out' = Append(out, [kind |-> "print", text |-> WebsocketErrorText])
    /\ listener' = [listener EXCEPT
                      !.pc = "sleep",
                      !.wake = now + ReconnectDelaySec * TicksPerSec]
    /\ latest_prices' = EmptyDict
    /\ UNCHANGED <<cacheFile, now, lastCall, config, threadVars,
                   static_data, watchInterval, ws, lock, received, fresh,
                   pc, args, idx, data, failed_refreshes, calls, wake>>

\* websocket_client.py 62-64: connect, send, recv or json.loads raises: the
\* connection is closed, the error printed and time.sleep(5) begins
WsFail ==
    /\ listener.pc \in {"connect", "subscribe", "recv"}
    /\ out' = Append(out, [kind |-> "print", text |-> WebsocketErrorText])
    /\ listener' = [listener EXCEPT
                      !.pc = "sleep",
                      !.wake = now + ReconnectDelaySec * TicksPerSec]
    /\ UNCHANGED <<cacheFile, now, lastCall, config, threadVars, latest_prices,
                   static_data, watchInterval, ws, lock, received, fresh,
                   pc, args, idx, data, failed_refreshes, calls, wake>>

\* the next connection attempt is made at once
C34Mut_WsSleepEnd ==
    /\ listener.pc = "sleep"
    /\ listener' = [listener EXCEPT !.pc = "connect"]
    /\ UNCHANGED <<cacheFile, now, lastCall, config, threadVars, latest_prices,
                   static_data, watchInterval, ws, lock, received, fresh,
                   runVars>>

\* time.sleep(5) returns: the next pass of the outer `while True`
WsSleepEnd ==
    /\ listener.pc = "sleep"
    /\ now >= listener.wake
    /\ listener' = [listener EXCEPT !.pc = "connect"]
    /\ UNCHANGED <<cacheFile, now, lastCall, config, threadVars, latest_prices,
                   static_data, watchInterval, ws, lock, received, fresh,
                   runVars>>

\* main.py 175-177: the ticker's snapshot is the failure record: it is the
\* row, and the table is not read
WatchSkip ==
    /\ pc = "watch_build"
    /\ idx <= Len(tickers)
    /\ IsFailure(static_data[tickers[idx].ticker])
    /\ data' = Append(data, static_data[tickers[idx].ticker])
    /\ idx' = idx + 1
    /\ UNCHANGED <<cacheFile, now, lastCall, config, threadVars,
                   watchVars, pc, args,
                   failed_refreshes, calls, out, wake>>

\* main.py 178, websocket_client.py 98: get_latest_price(ticker) is called,
\* and its `with lock:` blocks until the lock is free, then holds it
GetLatestPriceEnter ==
    /\ pc = "watch_build"
    /\ idx <= Len(tickers)
    /\ ~IsFailure(static_data[tickers[idx].ticker])
    /\ lock = None
    /\ lock' = Some("main")
    /\ pc' = "watch_get"
    /\ UNCHANGED <<cacheFile, now, lastCall, config, threadVars, latest_prices,
                   static_data, watchInterval, ws, listener, received, fresh,
                   args, idx, data, failed_refreshes, calls, out, wake>>

\* the lock is kept after the read
C32Mut_GetLatestPriceReturn ==
    /\ pc = "watch_get"
    /\ data' = Append(data, WatchRow(static_data[tickers[idx].ticker],
                                     latest_prices))
    /\ idx' = idx + 1
    /\ lock' = lock
    /\ pc' = "watch_build"
    /\ UNCHANGED <<cacheFile, now, lastCall, config, threadVars, latest_prices,
                   static_data, watchInterval, ws, listener, received, fresh,
                   args, failed_refreshes, calls, out, wake>>

\* websocket_client.py 99, main.py 180-203: latest_prices.get(ticker) is
\* returned, the lock released and the row built
GetLatestPriceReturn ==
    /\ pc = "watch_get"
    /\ data' = Append(data, WatchRow(static_data[tickers[idx].ticker],
                                     latest_prices))
    /\ idx' = idx + 1
    /\ lock' = None
    /\ pc' = "watch_build"
    /\ UNCHANGED <<cacheFile, now, lastCall, config, threadVars, latest_prices,
                   static_data, watchInterval, ws, listener, received, fresh,
                   args, failed_refreshes, calls, out, wake>>

\* a second passes while the render loop sleeps and the streaming thread
\* waits for a message or sleeps.  The origin of the clock is kept at the
\* present instant: the ends of both sleeps move one second closer.
StreamTick ==
    /\ pc = "watch_sleep"
    /\ now < wake
    /\ \/ listener.pc = "recv"
       \/ listener.pc = "sleep" /\ now < listener.wake
    /\ wake' = wake - TicksPerSec
    /\ listener' = [listener EXCEPT
                      !.wake = IF listener.pc = "sleep"
                               THEN listener.wake - TicksPerSec
                               ELSE listener.wake]
    /\ UNCHANGED <<cacheFile, now, lastCall, config, threadVars, latest_prices,
                   static_data, watchInterval, ws, lock, received, fresh,
                   pc, args, idx, data, failed_refreshes, calls, out>>

\* the steps of the render loop
RenderNext ==
    \/ WatchClear
    \/ WatchSkip
    \/ GetLatestPriceEnter
    \/ GetLatestPriceReturn
    \/ WatchDisplay
    \/ WatchSleepEnd

\* the steps of the streaming thread on the feed `messages`
ListenerNext(messages) ==
    \/ WsConnect
    \/ WsSubscribe
    \/ \E m \in messages : WsRecv(m)
    \/ WsAcquire
    \/ WsSet
    \/ WsFail
    \/ WsSleepEnd

StreamNext ==
    \/ RenderNext
    \/ ListenerNext(StreamMessages)
    \/ StreamTick

StreamSpec == StreamInit /\ [][StreamNext]_vars

StreamLiveNext ==
    \/ RenderNext
    \/ ListenerNext(LiveMessages)
    \/ StreamTick

\* the subscribe message sent after n others on the same connection
WsSubscribeAfter(n) == WsSubscribe /\ Len(listener.sent) = n

\* both threads keep being scheduled and every sleep returns; the transport
\* does not fail for ever: a connection attempt, and the sending of each
\* subscribe message, succeeds in the end if it is tried again and again
StreamLiveSpec ==
    /\ StreamInit
    /\ [][StreamLiveNext]_vars
    /\ WF_vars(RenderNext)
    /\ WF_vars(StreamTick)
    /\ WF_vars(WsAcquire)
    /\ WF_vars(WsSet)
    /\ WF_vars(WsSleepEnd)
    /\ SF_vars(WsConnect)
    /\ \A n \in 0..1 : SF_vars(WsSubscribeAfter(n))

----------------------------------------------------------------------------
(* AggSpec: the aggregator functions of finnhub_client.py called directly *)

\* the client's answers to client.quote: a quote, the all-zero quote Finnhub
\* answers for a symbol it does not know, FinnhubAPIException, another
\* exception (connection error, timeout)
QuoteResponses ==
    {Ok([c |-> Some(110), pc |-> Some(100)]),
     Ok([c |-> Some(0), pc |-> Some(0)]),
     ApiError, OtherError}

ProfileResponses ==
    {Ok([name |-> Some("Apple Inc")]), Ok(EmptyDict), ApiError, OtherError}

\* the answers to client.company_basic_financials: every metric, some
\* metrics (one null, one not there), no 'metric' object, the two failures
FinancialsResponses ==
    {Ok([metric |-> [epsTTM |-> Some(6), peTTM |-> Some(30),
                     currentDividendYieldTTM |-> Some(1)]]),
     Ok([metric |-> [epsTTM |-> Some(6), peTTM |-> None]]),
     Ok(EmptyDict), ApiError, OtherError}

YtdResponses ==
    {Ok([s |-> "ok", c |-> <<88, 90>>]), Ok([s |-> "no_data", c |-> <<>>]),
     ApiError, OtherError}

TenYearResponses ==
    {Ok([s |-> "ok", c |-> <<55>>]), Ok([s |-> "no_data", c |-> <<>>]),
     ApiError, OtherError}

AggGateways ==
    [quote : QuoteResponses, profile : ProfileResponses,
     financials : FinancialsResponses, ytd : YtdResponses,
     ten_year : TenYearResponses]

\* settings["columns"]: every combination of the two optional columns
AggSettings ==
    {[columns |-> [ytd_change |-> y, ten_year_change |-> t],
      cache |-> [enabled |-> FALSE, interval |-> 1]] : y \in BOOLEAN, t \in BOOLEAN}

\* arguments of calculate_changes
AggQuotes ==
    {None, Some(EmptyDict)} \cup
    {Some([c |-> c, pc |-> p]) : c \in {None, Some(0), Some(110)},
                                 p \in {None, Some(0), Some(100)}}
\* base prices calculate_changes is called with: year start, ten years ago
AggBasePrices == [ytd : {None, Some(0), Some(88)},
                  ten_year : {None, Some(0), Some(55)}]

AggInit ==
    /\ Init
    /\ tickers = <<TickerObj("AAPL")>>
    /\ ~settings.cache.enabled

AggFetch(ticker_obj, sett, gw) ==
    /\ lastCall.op = "none"
    /\ lastCall' = [op |-> "fetch_ticker_data", ticker_obj |-> ticker_obj,
                    settings |-> sett, gw |-> gw,
                    ret |-> fetch_ticker_data(ticker_obj, sett, gw)]
    /\ UNCHANGED <<cacheFile, now, config, threadVars, watchVars, runVars>>

AggStatic(ticker_obj, sett, gw) ==
    /\ lastCall.op = "none"
    /\ lastCall' = [op |-> "fetch_static_data", ticker_obj |-> ticker_obj,
                    settings |-> sett, gw |-> gw,
                    ret |-> fetch_static_data(ticker_obj, sett, gw)]
    /\ UNCHANGED <<cacheFile, now, config, threadVars, watchVars, runVars>>

AggChanges(quote, ytd_price, ten_year_price) ==
    /\ lastCall.op = "none"
    /\ lastCall' = [op |-> "calculate_changes", quote |-> quote,
                    ytd_price |-> ytd_price, ten_year_price |-> ten_year_price,
                    ret |-> calculate_changes(quote, ytd_price, ten_year_price)]
    /\ UNCHANGED <<cacheFile, now, config, threadVars, watchVars, runVars>>

\* the call has returned (or raised) to its caller
AggReturn ==
    /\ lastCall.op # "none"
    /\ lastCall' = [op |-> "none"]
    /\ UNCHANGED <<cacheFile, now, config, threadVars, watchVars, runVars>>

\* one call at a time: the next one begins when the last one is over
AggNext ==
    \/ /\ lastCall.op = "none"
       /\ \E sym \in Symbols, sett \in AggSettings, gw \in AggGateways :
            AggFetch(TickerObj(sym), sett, gw)
    \/ /\ lastCall.op = "none"
       /\ \E sym \in Symbols, sett \in AggSettings, gw \in AggGateways :
            AggStatic(TickerObj(sym), sett, gw)
    \/ /\ lastCall.op = "none"
       /\ \E q \in AggQuotes, b \in AggBasePrices :
            AggChanges(q, b.ytd, b.ten_year)
    \/ AggReturn

AggSpec == AggInit /\ [][AggNext]_vars

----------------------------------------------------------------------------
(* FaultSpec: cache.py over any cache.json, and with writes that fail; the *)
(* cache functions called directly, and one-shot runs over the same file   *)

\* cache.get(ticker) and cache[ticker] = ... need a dict
IsDict(v) == v # JsonArray

\* load_cache() as a call: UnicodeDecodeError is neither JSONDecodeError nor
\* IOError and leaves the function
load_cache_outcome(file) ==
    IF file.kind = "not_text" THEN Raise ELSE Return(load_cache(file))

\* get_cached_data(ticker, interval) as a call: cache.get raises
\* AttributeError on a list, entry["timestamp"] and entry["data"] raise
\* KeyError on an entry without the key
get_cached_data_outcome(file, clock, ticker, interval) ==
    LET loaded == load_cache_outcome(file)
        entry == DictGet(loaded.value, ticker)
    IN  IF loaded.kind = "raise" THEN Raise
        ELSE IF ~IsDict(loaded.value) THEN Raise
        ELSE IF entry = None THEN Return(None)
        ELSE IF "timestamp" \notin DOMAIN entry THEN Raise
        ELSE IF ~IsFresh(clock, entry, interval) THEN Return(None)
        ELSE IF "data" \notin DOMAIN entry THEN Raise
        ELSE Return(Some(entry.data))

\* get_cached_data_unchecked(ticker) as a call
get_cached_data_unchecked_outcome(file, ticker) ==
    LET loaded == load_cache_outcome(file)
        entry == DictGet(loaded.value, ticker)
    IN  IF loaded.kind = "raise" THEN Raise
        ELSE IF ~IsDict(loaded.value) THEN Raise
        ELSE IF entry = None THEN Return(None)
        ELSE IF "data" \notin DOMAIN entry THEN Raise
        ELSE Return(Some(entry.data))

\* what the operating system does with the write of save_cache:
\*   "written"      open() and json.dump succeed,
\*   "open_fails"   open(CACHE_FILE, "w") raises IOError: nothing is touched,
\*   "write_fails"  open() has truncated the file and a later write raises
\*                  IOError: the file is empty or holds part of the document
WriteOutcomes == {"written", "open_fails", "write_fails"}

\* a failed write leaves the new document in the file all the same
C28Mut_save_cache_outcome(file, cache_dict, w) == save_cache(cache_dict)

\* save_cache(cache_dict) under write outcome w: the file afterwards; the
\* IOError is logged and save_cache returns
save_cache_outcome(file, cache_dict, w) ==
    CASE w = "written" -> save_cache(cache_dict)
      [] w = "open_fails" -> file
      [] w = "write_fails" -> [kind |-> "invalid_json"]

\* update_cache(ticker, data) as a call under write outcome w: how it ends
\* and the file afterwards; `cache[ticker] = ...` raises TypeError on a list
update_cache_outcome(file, clock, ticker, payload, w) ==
    LET loaded == load_cache_outcome(file)
        entry == [data |-> payload, timestamp |-> IntTimestamp(clock)]
    IN  IF loaded.kind = "raise" THEN [ret |-> Raise, file |-> file]
        ELSE IF ~IsDict(loaded.value) THEN [ret |-> Raise, file |-> file]
        ELSE [ret |-> Return(None),
              file |-> save_cache_outcome(
                           file, DictSet(loaded.value, ticker, entry), w)]

\* records update_cache is called with
FaultPayloads ==
    {fetch_ticker_data(TickerObj("AAPL"), s, gw).value :
        s \in {x \in SettingsChoices : x.cache.enabled},
        gw \in {GwFull, GwPartial}}

\* entries found in a cache.json that this program did not write: complete,
\* without "timestamp", without "data"
FaultEntries ==
    UNION {{[data |-> JsonOfRecord(p), timestamp |-> 0],
            [data |-> JsonOfRecord(p)],
            [timestamp |-> 0]} : p \in FaultPayloads}

\* the files the program may find
FaultFiles ==
    {NoFile, [kind |-> "unreadable"], [kind |-> "invalid_json"],
     [kind |-> "not_text"], [kind |-> "array"]}
    \cup {[kind |-> "object", obj |-> [t \in {"AAPL"} |-> e]] :
            e \in FaultEntries}

\* no read of the file raises: it reads as empty, or every entry is complete
StoreReads(file) ==
    /\ file.kind \notin {"not_text", "array"}
    /\ file.kind = "object" =>
         \A t \in DOMAIN file.obj : DOMAIN file.obj[t] = {"data", "timestamp"}

FaultInit ==
    /\ cacheFile \in FaultFiles
    /\ now = 0
    /\ lastCall = [op |-> "none"]
    /\ settings \in {x \in SettingsChoices : x.cache.enabled}
    /\ tickers = <<TickerObj("AAPL"), TickerObj("MSFT")>>
    /\ api_key = Some("key")
    /\ Idle
    /\ NoSession
    /\ NoThreads

FaultLoad ==
    /\ lastCall' = [op |-> "load_cache", ret |-> load_cache_outcome(cacheFile)]
    /\ UNCHANGED <<cacheFile, now, config, threadVars, watchVars, runVars>>

FaultGet(t, iv) ==
    /\ lastCall' = [op |-> "get_cached_data", ticker |-> t, interval |-> iv,
                    ret |-> get_cached_data_outcome(cacheFile, now, t, iv)]
    /\ UNCHANGED <<cacheFile, now, config, threadVars, watchVars, runVars>>

FaultGetUnchecked(t) ==
    /\ lastCall' = [op |-> "get_cached_data_unchecked", ticker |-> t,
                    ret |-> get_cached_data_unchecked_outcome(cacheFile, t)]
    /\ UNCHANGED <<cacheFile, now, config, threadVars, watchVars, runVars>>

\* .before is the file the call found
FaultUpdate(t, p, w) ==
    LET r == update_cache_outcome(cacheFile, now, t, p, w)
    IN  /\ cacheFile' = r.file
        /\ lastCall' = [op |-> "update_cache", ticker |-> t, payload |-> p,
                        write |-> w, before |-> cacheFile, ret |-> r.ret]
        /\ UNCHANGED <<now, config, threadVars, watchVars, runVars>>

\* the caller goes on (or its process ends with the exception)
FaultReturn ==
    /\ lastCall.op # "none"
    /\ lastCall' = [op |-> "none"]
    /\ UNCHANGED <<cacheFile, now, config, threadVars, watchVars, runVars>>

\* time passes: a fraction of a second
FaultAdvance ==
    /\ pc = "idle"
    /\ lastCall.op = "none"
    /\ Advance(1)
    /\ UNCHANGED <<cacheFile, lastCall, config, threadVars,
                   watchVars, runVars>>

\* a one-shot run is started over a file whose reads do not raise
FaultStart(a) ==
    /\ lastCall.op = "none"
    /\ StoreReads(cacheFile)
    /\ ~a.daemon
    /\ Start(a)

\* the update_cache call an iteration made, if any
UpdateCallOf(cs) == SelectSeq(cs, LAMBDA c : c.fn = "update_cache")

\* One iteration of the one-shot loop (main.py 216-244) whose save_cache,
\* if it gets that far, ends with write outcome w; the outcome is entered
\* in the call trace after the update_cache call
FaultNormalIteration(gw, w) ==
    /\ pc = "normal_loop"
    /\ idx <= Len(tickers)
    /\ LET r == NormalBody(cacheFile, now, tickers[idx], settings, args, idx, gw)
           upd == UpdateCallOf(r.calls)
       IN  /\ upd = <<>> => w = "written"
           /\ cacheFile' =
                IF upd = <<>> THEN r.file
                ELSE update_cache_outcome(
                         cacheFile, now, upd[1].ticker, upd[1].val, w).file
           /\ data' = data \o r.rows
           /\ failed_refreshes' = failed_refreshes \o r.failed
           /\ calls' = calls \o r.calls \o
                       (IF upd = <<>> THEN <<>>
                        ELSE <<Call("save_cache", idx, upd[1].ticker, w)>>)
           /\ pc' = r.pc
           /\ idx' = IF r.pc = "normal_loop" THEN idx + 1 ELSE idx
    /\ UNCHANGED <<now, lastCall, config, threadVars, watchVars,
                   args, out, wake>>

FaultNext ==
    \/ (lastCall.op = "none" /\ pc = "idle" /\ FaultLoad)
    \/ (lastCall.op = "none" /\ pc = "idle" /\
        \E t \in Symbols, iv \in {0, 1} : FaultGet(t, iv))
    \/ (lastCall.op = "none" /\ pc = "idle" /\
        \E t \in Symbols : FaultGetUnchecked(t))
    \/ (lastCall.op = "none" /\ pc = "idle" /\
        \E t \in Symbols, p \in FaultPayloads, w \in WriteOutcomes :
            FaultUpdate(t, p, w))
    \/ FaultReturn
    \/ FaultAdvance
    \/ \E a \in ArgChoices : FaultStart(a)
    \/ \E gw \in {GwFull, GwUnavailable}, w \in WriteOutcomes :
           FaultNormalIteration(gw, w)
    \/ NormalDisplay
    \/ NormalWarn
    \/ Exit

FaultSpec == FaultInit /\ [][FaultNext]_vars

----------------------------------------------------------------------------
(* ThreadSpec: threads of one process calling update_cache and save_cache  *)
(* at the same time.  Each statement that touches cache.json or the lock   *)
(* is one step of its thread.                                              *)

\* number of threads calling into cache.py
NumThreads == 2

ThreadIds == 1..NumThreads

\* records the threads pass to update_cache
ThreadPayloads ==
    {fetch_ticker_data(TickerObj(sym), s, GwFull).value :
        sym \in Symbols, s \in {x \in SettingsChoices : x.cache.enabled}}

\* the entry update_cache makes of a record
ThreadEntry(p) == [data |-> p, timestamp |-> IntTimestamp(now)]

\* dictionaries the threads pass to save_cache directly
ThreadDicts ==
    {[t \in {p.ticker} |-> ThreadEntry(p)] : p \in ThreadPayloads}

ThreadInit ==
    /\ cacheFile = NoFile
    /\ now = 0
    /\ lastCall = [op |-> "none"]
    /\ settings \in {x \in SettingsChoices : x.cache.enabled}
    /\ tickers = <<TickerObj("AAPL"), TickerObj("MSFT")>>
    /\ api_key = Some("key")
    /\ Idle
    /\ NoSession
    /\ threads = [th \in ThreadIds |-> [pc |-> "idle"]]
    /\ cache_lock = None

\* thread th calls update_cache(ticker, data)
ThreadCallUpdate(th, p) ==
    /\ threads[th].pc = "idle"
    /\ threads' = [threads EXCEPT ![th] =
                      [pc |-> "load", op |-> "update_cache",
                       ticker |-> p.ticker, payload |-> p]]
    /\ UNCHANGED <<cacheFile, now, lastCall, config, cache_lock,
                   watchVars, runVars>>

\* cache = load_cache(); cache[ticker] = {...}: outside the lock.  A file
\* another thread has opened for writing and not yet written reads as {}
ThreadLoad(th) ==
    /\ threads[th].pc = "load"
    /\ LET cache == load_cache(cacheFile)
           entry == ThreadEntry(threads[th].payload)
       IN  threads' = [threads EXCEPT ![th] =
                          [@ EXCEPT !.pc = "acquire"] @@
                          [arg |-> DictSet(cache, threads[th].ticker, entry)]]
    /\ UNCHANGED <<cacheFile, now, lastCall, config, cache_lock,
                   watchVars, runVars>>

\* thread th calls save_cache(cache_dict)
ThreadCallSave(th, d) ==
    /\ threads[th].pc = "idle"
    /\ threads' = [threads EXCEPT ![th] =
                      [pc |-> "acquire", op |-> "save_cache", arg |-> d]]
    /\ UNCHANGED <<cacheFile, now, lastCall, config, cache_lock,
                   watchVars, runVars>>

\* the lock is taken whether or not another thread holds it
C29Mut_ThreadAcquire(th) ==
    /\ threads[th].pc = "acquire"
    /\ cache_lock' = Some(th)
    /\ threads' = [threads EXCEPT ![th].pc = "open"]
    /\ UNCHANGED <<cacheFile, now, lastCall, config, watchVars, runVars>>

\* `with cache_lock:` blocks until the lock is free, then holds it
ThreadAcquire(th) ==
    /\ threads[th].pc = "acquire"
    /\ cache_lock = None
    /\ cache_lock' = Some(th)
    /\ threads' = [threads EXCEPT ![th].pc = "open"]
    /\ UNCHANGED <<cacheFile, now, lastCall, config, watchVars, runVars>>

\* open(CACHE_FILE, "w") creates or truncates the file
ThreadOpen(th) ==
    /\ threads[th].pc = "open"
    /\ cacheFile' = [kind |-> "invalid_json"]
    /\ threads' = [threads EXCEPT ![th].pc = "dump"]
    /\ UNCHANGED <<now, lastCall, config, cache_lock, watchVars, runVars>>

\* json.dump(cache_dict, f, indent=2) and the close of the file
ThreadDump(th) ==
    /\ threads[th].pc = "dump"
    /\ cacheFile' = save_cache(threads[th].arg)
    /\ threads' = [threads EXCEPT ![th].pc = "release"]
    /\ UNCHANGED <<now, lastCall, config, cache_lock, watchVars, runVars>>

\* the end of the `with cache_lock:` block, and the return to the caller
ThreadRelease(th) ==
    /\ threads[th].pc = "release"
    /\ cache_lock' = None
    /\ threads' = [threads EXCEPT ![th].pc = "done"]
    /\ UNCHANGED <<cacheFile, now, lastCall, config, watchVars, runVars>>

ThreadNext ==
    \E th \in ThreadIds :
        \/ \E p \in ThreadPayloads : ThreadCallUpdate(th, p)
        \/ ThreadLoad(th)
        \/ \E d \in ThreadDicts : ThreadCallSave(th, d)
        \/ ThreadAcquire(th)
        \/ ThreadOpen(th)
        \/ ThreadDump(th)
        \/ ThreadRelease(th)

ThreadSpec == ThreadInit /\ [][ThreadNext]_vars

----------------------------------------------------------------------------
(* Properties of the cache (checked under CacheSpec) *)

\* the entry the store holds for ticker t, None when it holds none
StoreEntry(file, t) ==
    LET store == load_cache(file)
    IN  IF t \in DOMAIN store THEN Some(store[t]) ELSE None

\* seconds as clock ticks
Seconds(n) == n * TicksPerSec

\* now - entry.timestamp for the entry e, in clock ticks
EntryAge(e) == now - Seconds(e.timestamp)

\* C1: get_cached_data(ticker, interval) returns the stored payload if and
\* only if the store holds an entry for ticker whose age, now minus its
\* timestamp, is at most interval*60 seconds, and None otherwise; an age of
\* exactly interval*60 seconds returns the payload, one second more None
C1_FreshnessContract ==
    [][\A t \in Symbols, iv \in DirectIntervals :
          DirectGet(t, iv) =>
            LET e == StoreEntry(cacheFile, t)
                ret == lastCall'.ret
            IN  /\ e = None => ret = None
                /\ e # None =>
                     /\ ret # None <=> EntryAge(e[1]) <= Seconds(iv * 60)
                     /\ ret # None => ret = Some(e[1].data)
                     /\ EntryAge(e[1]) = Seconds(iv * 60) => ret = Some(e[1].data)
                     /\ EntryAge(e[1]) = Seconds(iv * 60 + 1) => ret = None]_vars

\* a one-minute read of an entry that is exactly 60 seconds old has returned
\* its payload
C1_Witness ==
    /\ lastCall.op = "get_cached_data"
    /\ lastCall.interval = 1
    /\ lastCall.ret # None
    /\ StoreEntry(cacheFile, lastCall.ticker) # None
    /\ EntryAge(StoreEntry(cacheFile, lastCall.ticker)[1]) = Seconds(60)

\* C2: update_cache(ticker, payload) followed by
\* get_cached_data_unchecked(ticker), with no write in between, returns a
\* payload equal to the one stored, None fields included, whatever the store
\* held before
C2_RoundTrip ==
    (/\ lastCall.op = "get_cached_data_unchecked"
     /\ lastCall.after # None
     /\ lastCall.after[1].ticker = lastCall.ticker)
    => lastCall.ret = Some(lastCall.after[1].payload)

\* a payload with None fields was stored and read back
C2_Witness ==
    /\ lastCall.op = "get_cached_data_unchecked"
    /\ lastCall.after # None
    /\ lastCall.after[1].ticker = lastCall.ticker
    /\ "eps" \in DOMAIN lastCall.after[1].payload
    /\ lastCall.after[1].payload.eps = None
    /\ lastCall.after[1].payload.current_price # None
    /\ lastCall.ret # None

----------------------------------------------------------------------------
(* Properties of normal mode and daemon mode (checked under Spec) *)

NormalMode == pc \in {"normal_loop", "normal_warn", "normal_done", "crashed"}

\* a step that runs one iteration of the normal-mode loop
NormalStep ==
    /\ pc = "normal_loop"
    /\ idx <= Len(tickers)
    /\ (pc' # pc \/ idx' # idx)

\* a step that runs one iteration of the daemon loop, up to its sleep
DaemonStep == pc = "daemon_loop" /\ pc' = "daemon_pause"

\* the calls a step has added to the trace
NewCalls == SubSeq(calls', Len(calls) + 1, Len(calls'))

CallsOf(trace, name) == SelectSeq(trace, LAMBDA c : c.fn = name)

\* the step's fetch returned the success / the failure variant
FetchSucceeded(c) ==
    c.fn = "fetch_ticker_data" /\ c.val.kind = "return"
        /\ "message" \notin DOMAIN c.val.value
FetchFailed(c) ==
    c.fn = "fetch_ticker_data" /\ c.val.kind = "return"
        /\ "message" \in DOMAIN c.val.value

\* C3: from an empty store, whatever normal runs (with or without
\* --refresh) and daemon cycles have happened, no cache entry's payload is a
\* failure record (one with a 'message' key), and update_cache is only called
\* with success records
C3_NoFailureCached ==
    /\ cacheFile.kind = "object" =>
         \A t \in DOMAIN cacheFile.obj : "message" \notin DOMAIN cacheFile.obj[t].data
    /\ \A k \in 1..Len(calls) :
         calls[k].fn = "update_cache" => "message" \notin DOMAIN calls[k].val

\* a fetch has returned the failure variant while the store holds entries
C3_Witness ==
    /\ cacheFile.kind = "object"
    /\ DOMAIN cacheFile.obj = Symbols
    /\ \E k \in 1..Len(calls) : FetchFailed(calls[k])
    /\ \E k \in 1..Len(calls) : calls[k].fn = "update_cache"

\* C4: normal mode, caching enabled, no --refresh: for a ticker whose
\* get_cached_data result is present, that payload is appended to the result
\* list, and neither fetch_ticker_data nor update_cache is called for it
C4_FreshEntryUsed ==
    [][(/\ NormalStep
        /\ settings.cache.enabled
        /\ ~args.refresh
        /\ get_cached_data(cacheFile, now, tickers[idx].ticker,
                           settings.cache.interval) # None)
       => LET t == tickers[idx].ticker
              cached == get_cached_data(cacheFile, now, t, settings.cache.interval)
          IN  /\ data' = Append(data, cached[1])
              /\ CallsOf(NewCalls, "fetch_ticker_data") = <<>>
              /\ CallsOf(NewCalls, "update_cache") = <<>>
              /\ cacheFile' = cacheFile
              /\ failed_refreshes' = failed_refreshes
              /\ idx' = idx + 1]_vars

\* a normal run has used a fresh entry for its second ticker
C4_Witness ==
    /\ NormalMode
    /\ settings.cache.enabled
    /\ ~args.refresh
    /\ \E k \in 1..Len(calls) :
         /\ calls[k].fn = "get_cached_data"
         /\ calls[k].val # None
         /\ calls[k].pos = 2
         /\ Len(data) >= 2
         /\ data[2] = calls[k].val[1]

\* C5: normal mode, caching enabled: when fetch_ticker_data returns the
\* failure variant and the store holds an entry for the ticker, of any age,
\* the stored payload is the ticker's row and the ticker joins the
\* stale-fallback list; when the store holds none, the failure record is the
\* row and the ticker does not join the list
C5_StaleFallback ==
    [][(/\ NormalStep
        /\ settings.cache.enabled
        /\ \E k \in 1..Len(NewCalls) : FetchFailed(NewCalls[k]))
       => LET t == tickers[idx].ticker
              e == StoreEntry(cacheFile, t)
          IN  IF e # None
              THEN /\ data' = Append(data, e[1].data)
                   /\ failed_refreshes' = Append(failed_refreshes, t)
              ELSE /\ data' = Append(data, FailureRecord(t))
                   /\ failed_refreshes' = failed_refreshes]_vars

\* a run has fallen back to an entry that is older than the interval
C5_Witness ==
    /\ NormalMode
    /\ settings.cache.enabled
    /\ Len(failed_refreshes) = 1
    /\ Len(data) = 1
    /\ LET e == StoreEntry(cacheFile, failed_refreshes[1])
       IN  /\ e # None
           /\ EntryAge(e[1]) > Seconds(settings.cache.interval * 60)
           /\ data[1] = e[1].data

\* C6: normal mode: a failure-variant result never stops the processing of
\* the remaining tickers; whatever succeeds or fails, the list passed to
\* display_table holds exactly one record per configured ticker, in the
\* configured order
C6_OneRowPerTicker ==
    NormalMode =>
      /\ \A k \in 1..Len(out) :
           out[k].kind = "table" =>
             /\ Len(out[k].rows) = Len(tickers)
             /\ \A i \in 1..Len(tickers) : out[k].rows[i].ticker = tickers[i].ticker
      /\ pc = "normal_loop" =>
           /\ Len(data) = idx - 1
           /\ \A i \in 1..Len(data) : data[i].ticker = tickers[i].ticker
      /\ pc = "crashed" => calls[Len(calls)].val.kind = "raise"
      /\ \A k \in 1..Len(calls) :
           FetchFailed(calls[k]) =>
             (idx > calls[k].pos /\ Len(data) >= calls[k].pos)

\* a table was rendered whose first ticker failed and whose second succeeded
C6_Witness ==
    /\ pc = "normal_done"
    /\ Len(tickers) = 2
    /\ Len(out) >= 1
    /\ out[1].kind = "table"
    /\ "message" \in DOMAIN out[1].rows[1]
    /\ "message" \notin DOMAIN out[1].rows[2]

\* C7: normal mode with --refresh and caching enabled: get_cached_data is
\* never consulted, every ticker is fetched even when a fresh entry exists,
\* and every successful result is written with update_cache
C7_RefreshBypassesCache ==
    [][(/\ NormalStep
        /\ settings.cache.enabled
        /\ args.refresh)
       => LET t == tickers[idx].ticker
          IN  /\ CallsOf(NewCalls, "get_cached_data") = <<>>
              /\ Len(NewCalls) >= 1
              /\ NewCalls[1].fn = "fetch_ticker_data"
              /\ NewCalls[1].ticker = t
              /\ FetchSucceeded(NewCalls[1]) =>
                   /\ Len(NewCalls) = 2
                   /\ NewCalls[2] = Call("update_cache", idx, t, NewCalls[1].val.value)
                   /\ StoreEntry(cacheFile', t) =
                        Some([data |-> NewCalls[1].val.value,
                              timestamp |-> now \div TicksPerSec])
                   /\ data' = Append(data, NewCalls[1].val.value)]_vars

\* a --refresh run has fetched and written a ticker for which the store held
\* a fresh entry (written for the same ticker one position earlier)
C7_Witness ==
    /\ NormalMode
    /\ settings.cache.enabled
    /\ args.refresh
    /\ Len(calls) = 4
    /\ calls[2].fn = "update_cache"
    /\ calls[3].fn = "fetch_ticker_data"
    /\ calls[4].fn = "update_cache"
    /\ calls[4].ticker = calls[2].ticker

\* C8: normal mode with caching disabled: the store is neither read nor
\* changed, every ticker is fetched, and a failed ticker's row is its failure
\* record even if the store holds an entry for it
C8_CacheDisabled ==
    [][(/\ NormalStep
        /\ ~settings.cache.enabled)
       => LET t == tickers[idx].ticker
          IN  /\ cacheFile' = cacheFile
              /\ Len(NewCalls) = 1
              /\ NewCalls[1].fn = "fetch_ticker_data"
              /\ NewCalls[1].ticker = t
              /\ FetchFailed(NewCalls[1]) =>
                   /\ data' = Append(data, FailureRecord(t))
                   /\ failed_refreshes' = failed_refreshes
              /\ FetchSucceeded(NewCalls[1]) =>
                   data' = Append(data, NewCalls[1].val.value)]_vars

\* with caching disabled a failed ticker was given its failure record while
\* the store (filled by the daemon) holds an entry for it
C8_Witness ==
    /\ NormalMode
    /\ ~settings.cache.enabled
    /\ Len(data) >= 1
    /\ "message" \in DOMAIN data[1]
    /\ StoreEntry(cacheFile, tickers[1].ticker) # None

\* the tickers of the trace's stale fallbacks, in order
FallbackTickers ==
    LET used == SelectSeq(calls, LAMBDA c :
                    c.fn = "get_cached_data_unchecked" /\ c.val # None)
    IN  [i \in 1..Len(used) |-> used[i].ticker]

\* C9: normal mode renders exactly once, after all tickers have been
\* processed; the stale-fallback warning comes only after the render, if and
\* only if some ticker used the stale fallback, and names exactly those
\* tickers in processing order
C9_RenderThenWarn ==
    NormalMode =>
      /\ pc \in {"normal_loop", "crashed"} => out = <<>>
      /\ pc = "normal_warn" => out = <<[kind |-> "table", rows |-> data]>>
      /\ pc \in {"normal_warn", "normal_done"} =>
           /\ Len(data) = Len(tickers)
           /\ idx = Len(tickers) + 1
      /\ pc = "normal_done" =>
           /\ out[1] = [kind |-> "table", rows |-> data]
           /\ Len(CallsOf(calls, "fetch_ticker_data"))
                + Len(SelectSeq(calls, LAMBDA c :
                        c.fn = "get_cached_data" /\ c.val # None)) = Len(tickers)
           /\ IF FallbackTickers # <<>>
              THEN out = <<out[1], [kind |-> "warning", tickers |-> FallbackTickers]>>
              ELSE Len(out) = 1

\* a run has ended with a warning that names two tickers
C9_Witness ==
    /\ pc = "normal_done"
    /\ Len(out) = 2
    /\ out[1].kind = "table"
    /\ out[2].kind = "warning"
    /\ Len(out[2].tickers) = 2
    /\ out[2].tickers[1] # out[2].tickers[2]

\* C10: daemon mode: in every cycle fetch_ticker_data is called for every
\* configured ticker, in order; a success is written with update_cache
\* without a freshness check and whatever the cache 'enabled' setting; a
\* failure-variant result leaves the store unchanged
C10_DaemonCycle ==
    [][/\ DaemonStep =>
            LET t == tickers[idx].ticker
            IN  /\ Len(NewCalls) >= 1
                /\ NewCalls[1].fn = "fetch_ticker_data"
                /\ NewCalls[1].ticker = t
                /\ NewCalls[1].pos = idx
                /\ CallsOf(NewCalls, "get_cached_data") = <<>>
                /\ FetchSucceeded(NewCalls[1]) =>
                     /\ StoreEntry(cacheFile', t) =
                          Some([data |-> NewCalls[1].val.value,
                                timestamp |-> now \div TicksPerSec])
                     /\ CallsOf(NewCalls, "update_cache") =
                          <<Call("update_cache", idx, t, NewCalls[1].val.value)>>
                /\ FetchFailed(NewCalls[1]) => cacheFile' = cacheFile
       /\ pc' = "daemon_sleep" =>
            LET fetches == CallsOf(calls', "fetch_ticker_data")
            IN  /\ Len(fetches) = Len(tickers)
                /\ \A i \in 1..Len(tickers) :
                     fetches[i].ticker = tickers[i].ticker /\ fetches[i].pos = i]_vars

\* with caching disabled, a daemon cycle over two tickers has ended with one
\* ticker failed and the other written
C10_Witness ==
    /\ pc = "daemon_sleep"
    /\ ~settings.cache.enabled
    /\ Len(tickers) = 2
    /\ FetchFailed(calls[1])
    /\ Len(calls) = 3
    /\ calls[3].fn = "update_cache"
    /\ StoreEntry(cacheFile, calls[3].ticker) # None

----------------------------------------------------------------------------
(* Properties of daemon mode over time *)

\* position i of the ticker list has just been attempted: its fetch has been
\* called and the daemon is in the sleep(1) that follows
Attempted(i) ==
    /\ pc = "daemon_pause"
    /\ idx = i
    /\ Len(calls) >= 1
    /\ calls[Len(calls)].pos = i
    /\ calls[Len(calls)].ticker = tickers[i].ticker

\* the fetch of position i failed or raised in the current cycle
AttemptFailed(i) ==
    /\ Attempted(i)
    /\ \E k \in 1..Len(calls) :
         /\ calls[k].fn = "fetch_ticker_data"
         /\ calls[k].pos = i
         /\ (calls[k].val.kind = "raise" \/ FetchFailed(calls[k]))

CycleAllSucceeded ==
    /\ pc = "daemon_sleep"
    /\ \A k \in 1..Len(calls) :
         calls[k].fn = "fetch_ticker_data" => FetchSucceeded(calls[k])

\* C12: daemon mode keeps the cache warm: with the daemon running and every
\* fetch succeeding, once a cycle has completed every configured ticker's
\* cache entry is fresh with respect to the configured interval (age <=
\* interval*60 seconds), so that get_cached_data returns it.  Stated for
\* the instants up to the end of time.sleep(interval): a sleep that overruns
\* is not needed to break it.
C12_CacheKeptWarm ==
    (CycleAllSucceeded /\ now <= wake) =>
        \A i \in 1..Len(tickers) :
            get_cached_data(cacheFile, now, tickers[i].ticker,
                            settings.cache.interval) # None

----------------------------------------------------------------------------
(* Properties of watch mode and of the startup (checked under WatchSpec) *)

\* a step of the render loop that appends the row of position idx
BuildStep ==
    /\ pc = "watch_build"
    /\ pc' = "watch_build"
    /\ idx' = idx + 1

\* a step that renders the table and begins the sleep
RenderStep == pc = "watch_build" /\ pc' = "watch_sleep"

\* the table on the screen
Rendered == out[Len(out)].rows

\* C13: watch mode, in every render pass and for every ticker with a
\* success-variant snapshot: the current price of the ticker's row is the
\* latest_prices value for that ticker when one is present and the
\* snapshot's initial_current_price otherwise, and the table rendered is
\* made of these rows
C13_LivePriceRendered ==
    [][/\ BuildStep =>
            LET t == tickers[idx].ticker
                row == data'[Len(data')]
            IN  /\ Len(data') = Len(data) + 1
                /\ ~IsFailure(static_data[t]) =>
                     /\ ~IsFailure(row)
                     /\ row.ticker = t
                     /\ row.current_price =
                          IF t \in DOMAIN latest_prices THEN latest_prices[t]
                          ELSE static_data[t].initial_current_price
       /\ RenderStep =>
            /\ Len(out') >= 1
            /\ out'[Len(out')] = [kind |-> "table", rows |-> data]
            /\ Len(data) = Len(tickers)]_vars

\* a table is on the screen whose first row shows a streamed price and whose
\* second row, of a ticker the table holds no price for, the snapshot's
C13_Witness ==
    /\ pc = "watch_sleep"
    /\ Len(tickers) = 2
    /\ tickers[1].ticker # tickers[2].ticker
    /\ Len(out) = 1
    /\ ~IsFailure(Rendered[1])
    /\ Rendered[1].current_price = Some(121)
    /\ tickers[2].ticker \notin DOMAIN latest_prices
    /\ ~IsFailure(static_data[tickers[2].ticker])
    /\ Rendered[2].current_price =
         static_data[tickers[2].ticker].initial_current_price

\* the static fetches of the session, in call order
StaticFetches == CallsOf(calls, "fetch_static_data")

\* the last static fetch made for the symbol t
LastFetchOf(t) ==
    LET ks == {k \in 1..Len(StaticFetches) : StaticFetches[k].ticker = t}
    IN  StaticFetches[CHOOSE k \in ks : \A j \in ks : j <= k]

\* C14: watch mode setup: start_websocket is called exactly once, with the
\* configured symbols in configured order, and fetch_static_data exactly
\* once per configured ticker, in order; the render loop makes no further
\* call of either and never modifies a snapshot, for any number of render
\* passes
C14_SetupOnce ==
    [][/\ pc' \in WatchLoopPcs \cup {"watch_stopped"} =>
            /\ CallsOf(calls', "start_websocket") =
                 <<Call("start_websocket", 0, "",
                        [tickers |-> SymbolsOf(tickers), api_key |-> api_key[1]])>>
            /\ LET fetches == CallsOf(calls', "fetch_static_data")
               IN  /\ Len(fetches) = Len(tickers)
                   /\ \A i \in 1..Len(tickers) :
                        /\ fetches[i].pos = i
                        /\ fetches[i].ticker = tickers[i].ticker
            /\ DOMAIN static_data' = {tickers[i].ticker : i \in 1..Len(tickers)}
       /\ pc \in WatchLoopPcs =>
            /\ static_data' = static_data
            /\ calls' = calls
            /\ ws' = ws]_vars

\* a render pass over two tickers is over and the loop has come round to the
\* next one, with one start_websocket and two static fetches in the trace
C14_Witness ==
    /\ pc = "watch_clear"
    /\ Len(tickers) = 2
    /\ Len(out) = 1
    /\ out[1].kind = "table"
    /\ Len(calls) = 4
    /\ Len(StaticFetches) = 2

\* C15: watch mode: a ticker whose static snapshot is the failure variant
\* gets that unchanged failure record as its row in every render pass,
\* whatever latest_prices holds for it, and its snapshot stays the failure
\* variant
C15_FailureRowKept ==
    [][/\ BuildStep =>
            LET snapshot == static_data[tickers[idx].ticker]
            IN  IsFailure(snapshot) => data'[Len(data')] = snapshot
       /\ \A t \in DOMAIN static_data :
            (pc \in WatchLoopPcs /\ IsFailure(static_data[t])) =>
                (t \in DOMAIN static_data' /\ static_data'[t] = static_data[t])]_vars

\* the table on the screen shows the failure record of a ticker that
\* latest_prices holds a price for, above the row of another ticker that
\* shows a streamed price
C15_Witness ==
    /\ pc = "watch_sleep"
    /\ Len(out) = 1
    /\ Len(tickers) = 2
    /\ IsFailure(Rendered[1])
    /\ Rendered[1] = static_data[tickers[1].ticker]
    /\ tickers[1].ticker \in DOMAIN latest_prices
    /\ ~IsFailure(Rendered[2])
    /\ Rendered[2].current_price = Some(90)

\* the interval warning is on the screen
Warned == \E k \in 1..Len(out) : out[k] = [kind |-> "warning", text |-> IntervalWarningText]

\* C16: watch mode sleep interval: an --interval value > 0 is the sleep
\* between renders; a value <= 0 produces a warning and the configured
\* watch_interval is used; with no --interval the configured watch_interval
\* is used; every render pass of the session sleeps the chosen interval
C16_SleepInterval ==
    [][/\ (pc = "watch_start" /\ pc' = "watch_static") =>
            /\ (args.interval # None /\ args.interval[1] > 0) =>
                 (watchInterval' = Some(args.interval[1]) /\ ~Warned')
            /\ (args.interval # None /\ args.interval[1] <= 0) =>
                 (watchInterval' = Some(settings.watch_interval) /\ Warned')
            /\ args.interval = None =>
                 (watchInterval' = Some(settings.watch_interval) /\ ~Warned')
       /\ RenderStep =>
            /\ watchInterval # None
            /\ wake' = now + Seconds(watchInterval[1])
       /\ pc \in {"watch_static"} \cup WatchLoopPcs =>
            watchInterval' = watchInterval]_vars

\* --interval 0 was given and the render loop is in a sleep of the configured
\* watch_interval that has not ended
C16_Witness ==
    /\ pc = "watch_sleep"
    /\ args.interval = Some(0)
    /\ watchInterval = Some(settings.watch_interval)
    /\ wake = now + Seconds(settings.watch_interval)

\* C17: watch mode: from every point of a render-loop iteration (clearing,
\* building the list, rendering, sleeping) the loop only goes on or ends in
\* the clean stop; the stop prints its message and nothing else, with no
\* further render or sleep after it, and main returns
C17_InterruptStopsCleanly ==
    [][/\ pc \in WatchLoopPcs => pc' \in WatchLoopPcs \cup {"watch_stopped"}
       /\ (pc \in WatchLoopPcs /\ pc' = "watch_stopped") =>
            /\ out' = Append(out, [kind |-> "stopped", text |-> StoppingText])
            /\ data' = data
            /\ wake' = wake
       /\ pc = "watch_stopped" => pc' \in {"watch_stopped", "idle"}]_vars

\* the loop was interrupted while it slept, and has stopped
C17_Witness ==
    /\ pc = "watch_stopped"
    /\ now < wake
    /\ Len(out) = 2
    /\ out[1].kind = "table"
    /\ out[2].kind = "stopped"

\* C18: the watch-mode session only moves from starting to streaming
\* (subscription and static fetch), to the render loop, to the clean stop,
\* with no other transition: the session ends only in the clean stop,
\* including when it is interrupted during the setup
C18_SessionStates ==
    [][/\ pc = "watch_start" => pc' \in {"watch_start", "watch_static", "watch_stopped"}
       /\ pc = "watch_static" => pc' \in {"watch_static", "watch_clear", "watch_stopped"}
       /\ pc \in WatchLoopPcs => pc' \in WatchLoopPcs \cup {"watch_stopped"}
       /\ pc = "watch_stopped" => pc' \in {"watch_stopped", "idle"}]_vars

\* the mode a position of main() belongs to
ModeOf(p) ==
    IF p \in {"daemon_loop", "daemon_pause", "daemon_sleep"} THEN "daemon"
    ELSE IF p \in WatchSetupPcs \cup WatchLoopPcs \cup {"watch_stopped"} THEN "watch"
    ELSE IF p \in {"normal_loop", "normal_warn", "normal_done"} THEN "normal"
    ELSE "none"

\* C19: for every combination of --daemon, --watch and --refresh (--daemon
\* and --watch together included), an invocation that passes the
\* configuration checks enters exactly one of the three modes, never leaves
\* it for another one, and enters no mode after it
C19_ExactlyOneMode ==
    [][/\ (pc = "idle" /\ pc' # "idle" /\ ConfigCheck(tickers, api_key) = "ok") =>
            /\ ModeOf(pc') \in {"daemon", "watch", "normal"}
            /\ args'.daemon => ModeOf(pc') = "daemon"
       /\ ModeOf(pc) # "none" => ModeOf(pc') \in {ModeOf(pc), "none"}
       /\ (pc # "idle" /\ ModeOf(pc) = "none") => pc' \in {pc, "idle"}]_vars

\* --daemon and --watch were given together and daemon mode runs
C19_Witness ==
    /\ args.daemon
    /\ args.watch
    /\ pc = "daemon_loop"
    /\ ws.state = "off"

\* nothing of a mode has happened: no streaming thread, no snapshot, no
\* table, no write of the cache
NoModeEffects ==
    /\ pc = "main_returned"
    /\ ws.state = "off"
    /\ static_data = EmptyDict
    /\ latest_prices = EmptyDict
    /\ cacheFile = NoFile
    /\ \A k \in 1..Len(out) : out[k].kind = "error"

\* C20: configuration errors are fatal before any mode starts: with an empty
\* ticker list the run ends without initializing the client, fetching or
\* rendering; with a missing credential it ends without entering normal,
\* daemon or watch mode, without starting the streaming subscription and
\* without any fetch or cache access
C20_ConfigErrorsFatal ==
    /\ (pc # "idle" /\ tickers = <<>>) =>
         /\ NoModeEffects
         /\ calls = <<>>
         /\ out = <<[kind |-> "error", text |-> NoTickersText]>>
    /\ (pc # "idle" /\ tickers # <<>> /\ Falsy(api_key)) =>
         /\ NoModeEffects
         /\ calls = <<Call("initialize_client", 0, "", Raise)>>
         /\ out = <<[kind |-> "error", text |-> NoKeyText]>>

\* --watch was given with tickers configured and no credential in the
\* environment, and main has returned
C20_Witness ==
    /\ pc = "main_returned"
    /\ args.watch
    /\ ~args.daemon
    /\ tickers # <<>>
    /\ api_key = None

----------------------------------------------------------------------------
(* Properties of the aggregator (checked under AggSpec) *)

\* the last call was a call of one of the two aggregators
AggCall == lastCall.op \in {"fetch_ticker_data", "fetch_static_data"}

\* it returned the success variant
AggSuccess ==
    /\ AggCall
    /\ lastCall.ret.kind = "return"
    /\ ~IsFailure(lastCall.ret.value)

\* how many requests of one kind the call made
Requested(name) ==
    Len(SelectSeq(lastCall.ret.requests, LAMBDA r : r = name))

\* C21: aggregator short-circuit: when the quote fetch fails (get_quote
\* returns None), fetch_ticker_data and fetch_static_data return the failure
\* variant {ticker, message} and make no profile, financials or
\* historical-candle call; no further call is made either when the quote
\* request raises
C21_ShortCircuit ==
    AggCall =>
        /\ lastCall.gw.quote = ApiError =>
             /\ lastCall.ret.kind = "return"
             /\ lastCall.ret.value = FailureRecord(lastCall.ticker_obj.ticker)
             /\ lastCall.ret.requests = <<"quote">>
        /\ lastCall.gw.quote = OtherError =>
             lastCall.ret.requests = <<"quote">>

\* fetch_static_data has returned the failure variant for a ticker whose
\* profile, financials and candles the client would have answered
C21_Witness ==
    /\ lastCall.op = "fetch_static_data"
    /\ lastCall.gw.quote = ApiError
    /\ lastCall.gw.profile.status = "ok"
    /\ lastCall.gw.financials.status = "ok"
    /\ lastCall.gw.ytd.status = "ok"
    /\ lastCall.settings.columns.ytd_change
    /\ lastCall.ret.kind = "return"
    /\ IsFailure(lastCall.ret.value)

\* C22: a quote whose current price is zero is treated as unobtainable:
\* fetch_ticker_data returns the failure variant for it and makes no further
\* gateway call
C22_ZeroQuoteUnobtainable ==
    (/\ lastCall.op = "fetch_ticker_data"
     /\ lastCall.gw.quote.status = "ok"
     /\ lastCall.gw.quote.body.c = Some(0)) =>
        /\ lastCall.ret.kind = "return"
        /\ lastCall.ret.value = FailureRecord(lastCall.ticker_obj.ticker)
        /\ lastCall.ret.requests = <<"quote">>

\* what the profile lookup returns for a response that does not raise
ProfileName(resp) ==
    IF resp.status = "ok" THEN DictGet(resp.body, "name") ELSE None

HistoricalFields ==
    IF lastCall.op = "fetch_ticker_data"
    THEN <<lastCall.ret.value.ytd_change, lastCall.ret.value.ten_year_change>>
    ELSE <<lastCall.ret.value.ytd_price, lastCall.ret.value.ten_year_price>>

C25_ChangesIndependent ==
    lastCall.op = "calculate_changes" =>
        LET quote == lastCall.quote
            current == IF quote = None THEN None ELSE DictGet(quote[1], "c")
            previous == IF quote = None THEN None ELSE DictGet(quote[1], "pc")
            bases == <<previous, lastCall.ytd_price, lastCall.ten_year_price>>
        IN  /\ Len(lastCall.ret) = 3
            /\ \A k \in 1..3 :
                 IF quote = None \/ current = None \/ bases[k] = None
                      \/ bases[k] = Some(0)
                 THEN lastCall.ret[k] = None
                 ELSE lastCall.ret[k] =
                        Some(((current[1] - bases[k][1]) * 100) \div bases[k][1])

\* the previous close is 0 and the ten-year close is missing, and the
\* year-to-date change of a price of 110 on a base of 88 is 25
C25_Witness ==
    /\ lastCall.op = "calculate_changes"
    /\ lastCall.quote = Some([c |-> Some(110), pc |-> Some(0)])
    /\ lastCall.ytd_price = Some(88)
    /\ lastCall.ten_year_price = None
    /\ lastCall.ret = <<None, Some(25), None>>

\* C26: no gateway failure of any kind raises past the aggregator: for every
\* way the quote, profile, financials or historical call can fail,
\* fetch_ticker_data and fetch_static_data return a record
C26_AggregatorNeverRaises ==
    AggCall => lastCall.ret.kind = "return"

----------------------------------------------------------------------------
(* Properties of the cache over any store (checked under FaultSpec) *)

\* the store is absent, unreadable, or does not hold a valid mapping from
\* symbols to entries with a timestamp and data
InvalidStore(file) ==
    \/ file.kind # "object"
    \/ \E t \in DOMAIN file.obj : DOMAIN file.obj[t] # {"data", "timestamp"}

\* C27: cache reads never fail: when the backing store is absent,
\* unreadable or holds content that is not a valid symbol-to-entry mapping,
\* load_cache, get_cached_data and get_cached_data_unchecked behave as if
\* the cache were empty and raise nothing
C27_CacheReadsNeverFail ==
    InvalidStore(cacheFile) =>
        /\ lastCall.op = "load_cache" => lastCall.ret = Return(EmptyDict)
        /\ lastCall.op \in {"get_cached_data", "get_cached_data_unchecked"} =>
             lastCall.ret = Return(None)

\* a direct update_cache call whose write failed has just been made on a
\* store that could be read
FailedUpdate ==
    /\ lastCall.op = "update_cache"
    /\ lastCall.write # "written"
    /\ StoreReads(lastCall.before)

\* every read of file f answers as the same read of file g does
SameReads(f, g) ==
    /\ load_cache_outcome(f) = load_cache_outcome(g)
    /\ \A t \in Symbols :
         /\ get_cached_data_unchecked_outcome(f, t) =
                get_cached_data_unchecked_outcome(g, t)
         /\ \A iv \in {0, 1} :
                get_cached_data_outcome(f, now, t, iv) =
                    get_cached_data_outcome(g, now, t, iv)

\* the table a one-shot run has rendered, <<>> before it is rendered
RenderedTable == SelectSeq(out, LAMBDA o : o.kind = "table")

\* the one-shot run renders every record it passed to update_cache,
\* whatever became of the write, and does not end with an exception
RendersFetched ==
    /\ (\E i \in 1..Len(calls) : calls[i].fn = "save_cache") => pc # "crashed"
    /\ RenderedTable # <<>> =>
         \A i \in 1..Len(calls) :
            calls[i].fn = "update_cache" =>
               RenderedTable[1].rows[calls[i].pos] = calls[i].val

\* C28 (as stated): cache write failure is swallowed with the state
\* unchanged: when the store cannot be written, update_cache returns
\* normally, the store's previous contents are still what later reads
\* return, and the one-shot run still renders the freshly fetched record
C28_WriteFailureKeepsStore ==
    /\ FailedUpdate =>
         /\ lastCall.ret = Return(None)
         /\ SameReads(cacheFile, lastCall.before)
    /\ RendersFetched

\* C28 (amended): when the store cannot be written, update_cache returns
\* normally and the one-shot run still renders the freshly fetched record;
\* later reads return the store's previous contents when the file could not
\* be opened for writing, and find an empty cache when the write failed
\* after open() had truncated the file
C28_WriteFailureSwallowed ==
    /\ FailedUpdate =>
         /\ lastCall.ret = Return(None)
         /\ lastCall.write = "open_fails" =>
              SameReads(cacheFile, lastCall.before)
         /\ lastCall.write = "write_fails" => SameReads(cacheFile, NoFile)
    /\ RendersFetched

\* a one-shot run has ended normally whose write of the first ticker's
\* record failed after the file was truncated, and its table shows the
\* record
C28_Witness ==
    /\ pc = "normal_done"
    /\ RenderedTable # <<>>
    /\ \E i \in 2..Len(calls) :
         /\ calls[i].fn = "save_cache"
         /\ calls[i].val = "write_fails"
         /\ calls[i].pos = 1
         /\ calls[i - 1].fn = "update_cache"
         /\ RenderedTable[1].rows[1] = calls[i - 1].val
         /\ ~IsFailure(calls[i - 1].val)

----------------------------------------------------------------------------
(* Properties of concurrent cache calls (checked under ThreadSpec) *)

\* thread th is inside `with cache_lock:`, where the file is written
InWriteSection(th) == threads[th].pc \in {"open", "dump", "release"}

\* the call of thread th has returned
Returned(th) == threads[th].pc = "done"

\* C29: concurrent in-process save_cache calls never interleave their
\* writes: at most one thread is inside the file-write section at any time
\* (the one that holds the lock), so whenever no save is in progress and
\* some save has returned, the store holds the argument of one of the
\* returned saves
C29_SavesDoNotInterleave ==
    /\ Cardinality({th \in ThreadIds : InWriteSection(th)}) <= 1
    /\ \A th \in ThreadIds : InWriteSection(th) => cache_lock = Some(th)
    /\ (cache_lock = None /\ \E th \in ThreadIds : Returned(th)) =>
         \E th \in ThreadIds :
            /\ Returned(th)
            /\ cacheFile = save_cache(threads[th].arg)

\* two threads have called save_cache with different dictionaries, both
\* calls have returned, and the store holds the second thread's dictionary
C29_Witness ==
    /\ Returned(1)
    /\ Returned(2)
    /\ threads[1].op = "save_cache"
    /\ threads[2].op = "save_cache"
    /\ threads[1].arg # threads[2].arg
    /\ cacheFile = save_cache(threads[2].arg)

\* C30: the cache is thread-safe for in-process callers: when two threads
\* call update_cache concurrently for two different tickers, after both
\* calls return the store holds the entries of both tickers
C30_NoLostUpdate ==
    \A a, b \in ThreadIds :
        (/\ Returned(a)
         /\ Returned(b)
         /\ threads[a].op = "update_cache"
         /\ threads[b].op = "update_cache"
         /\ threads[a].ticker # threads[b].ticker) =>
            /\ cacheFile.kind = "object"
            /\ {threads[a].ticker, threads[b].ticker} \subseteq DOMAIN cacheFile.obj

----------------------------------------------------------------------------
(* Further properties of the aggregator (checked under AggSpec) *)

\* the aggregator of the last call, applied to other responses
AggApply(gw) ==
    IF lastCall.op = "fetch_ticker_data"
    THEN fetch_ticker_data(lastCall.ticker_obj, lastCall.settings, gw)
    ELSE fetch_static_data(lastCall.ticker_obj, lastCall.settings, gw)

\* C35: the static entry point is equivalent to the aggregator on the same
\* gateway responses: for every set of quote, profile, financials and
\* historical responses and every settings value, the record the watch loop
\* assembles from fetch_static_data with an empty price table equals the
\* record fetch_ticker_data returns, and both make the same gateway calls in
\* the same order (and end the same way)
C35_StaticEquivalent ==
    lastCall.op = "fetch_static_data" =>
        LET static == lastCall.ret
            direct == fetch_ticker_data(lastCall.ticker_obj, lastCall.settings,
                                        lastCall.gw)
        IN  /\ static.kind = direct.kind
            /\ static.requests = direct.requests
            /\ static.kind = "return" =>
                 WatchRow(static.value, EmptyDict) = direct.value

\* fetch_static_data has returned a snapshot with a price, a previous close
\* and a year-start close, from which the watch loop computes the changes
C35_Witness ==
    /\ lastCall.op = "fetch_static_data"
    /\ AggSuccess
    /\ lastCall.ret.value.initial_current_price = Some(110)
    /\ lastCall.ret.value.pc = Some(100)
    /\ lastCall.ret.value.ytd_price = Some(88)
    /\ WatchRow(lastCall.ret.value, EmptyDict).ytd_change = Some(25)

\* the metrics a response of the financials endpoint holds
MetricOf(resp, key) ==
    IF resp.status = "ok" /\ "metric" \in DOMAIN resp.body
    THEN DictGet(resp.body.metric, key)
    ELSE None

\* the fields of a record other than the three metrics
WithoutMetrics(record) ==
    [k \in DOMAIN record \ {"eps", "pe_ratio", "dividend"} |-> record[k]]

\* the same responses with every metric answered
WithFullFinancials(gw) == [gw EXCEPT !.financials = GwFull.financials]

----------------------------------------------------------------------------
(* Further properties of the cache (checked under CacheSpec) *)

\* C37: update_cache(ticker, payload) changes only ticker's entry: every
\* other ticker's payload and timestamp in the store are the same after the
\* call as before it, and ticker's entry holds the payload with the current
\* time, in whole seconds, as its timestamp
C37_UpdateFrame ==
    [][\A t \in Symbols, p \in DirectPayloads :
          DirectUpdate(t, p) =>
            LET e == StoreEntry(cacheFile', t)
            IN  /\ \A u \in Symbols \ {t} :
                      StoreEntry(cacheFile', u) = StoreEntry(cacheFile, u)
                /\ e # None
                /\ e[1].data = p
                /\ Seconds(e[1].timestamp) <= now
                /\ now < Seconds(e[1].timestamp + 1)]_vars

\* MSFT has just been stored, a minute after AAPL, and AAPL's entry still
\* has its own payload and its older timestamp
C37_Witness ==
    /\ lastCall.op = "update_cache"
    /\ lastCall.ticker = "MSFT"
    /\ StoreEntry(cacheFile, "AAPL") # None
    /\ StoreEntry(cacheFile, "MSFT") # None
    /\ StoreEntry(cacheFile, "MSFT")[1].timestamp = IntTimestamp(now)
    /\ StoreEntry(cacheFile, "AAPL")[1].timestamp < IntTimestamp(now)
    /\ StoreEntry(cacheFile, "AAPL")[1].data # StoreEntry(cacheFile, "MSFT")[1].data

----------------------------------------------------------------------------
(* Further properties of the orchestrator (checked under Spec) *)

\* the daemon attempts a ticker in this step
AttemptStep ==
    /\ pc = "daemon_loop"
    /\ calls' # calls
    /\ calls' # <<>>

\* the fetch calls of the current daemon cycle
CycleFetches == CallsOf(calls, "fetch_ticker_data")

\* C38: daemon pacing: within a cycle a 1-second pause follows every ticker
\* attempt, whether it succeeded, returned the failure variant or raised;
\* the inter-cycle sleep of interval*60 seconds happens only after all
\* tickers of the cycle have been attempted, and no ticker of the next cycle
\* is attempted before that sleep ends
C38_DaemonPacing ==
    [][/\ AttemptStep =>
            /\ pc' = "daemon_pause"
            /\ wake' = now + Seconds(DaemonPauseSec)
       /\ (pc = "daemon_pause" /\ pc' # "idle") =>
            /\ calls' = calls
            /\ pc' # "daemon_pause" => (pc' = "daemon_loop" /\ now >= wake)
       /\ (pc # "daemon_sleep" /\ pc' = "daemon_sleep") =>
            /\ pc = "daemon_loop"
            /\ Len(CycleFetches) = Len(tickers)
            /\ \A i \in 1..Len(tickers) :
                  CycleFetches[i].ticker = tickers[i].ticker
            /\ wake' = now + Seconds(settings.cache.interval * 60)
       /\ (pc = "daemon_sleep" /\ pc' # "idle") =>
            /\ CallsOf(calls', "fetch_ticker_data") = <<>>
                 \/ calls' = calls
            /\ pc' # "daemon_sleep" =>
                 (pc' = "daemon_loop" /\ now >= wake /\ calls' = <<>>)
       /\ (calls' # calls /\ calls' # <<>> /\ args.daemon) =>
            pc = "daemon_loop"]_vars

\* the daemon is in the 1-second pause that follows an attempt that raised
C38_Witness ==
    /\ pc = "daemon_pause"
    /\ calls # <<>>
    /\ calls[Len(calls)].fn = "fetch_ticker_data"
    /\ calls[Len(calls)].val.kind = "raise"
    /\ wake = now + Seconds(DaemonPauseSec)

\* how many statements of the one-shot run are still to come, at most
NormalRank ==
    CASE pc = "normal_loop" -> (Len(tickers) + 1 - idx) + 3
      [] pc = "normal_warn" -> 2
      [] pc \in {"normal_done", "crashed"} -> 1
      [] OTHER -> 0

\* the calls of function fn the one-shot run has made for position i
CallsAt(fn, i) ==
    SelectSeq(calls, LAMBDA c : c.fn = fn /\ c.pos = i)

\* the one-shot run can take a step
NormalCanStep ==
    \/ ENABLED (\E gw \in GatewayCases : NormalIteration(gw))
    \/ ENABLED NormalDisplay
    \/ ENABLED NormalWarn
    \/ ENABLED Exit

\* C39: one-shot mode terminates on every finite ticker list whatever the
\* gateway and cache return: never stuck, every step of the run brings it
\* nearer to its end, each ticker triggers at most one fetch_ticker_data
\* call and at most one update_cache call, and a run that has come to its
\* return has rendered exactly once, the optional warning after the table
C39_OneShotTerminates ==
    /\ [](NormalMode =>
            /\ NormalCanStep
            /\ idx <= Len(tickers) + 1
            /\ \A k \in 1..Len(calls) : calls[k].pos \in 1..Len(tickers)
            /\ \A i \in 1..Len(tickers) :
                 /\ Len(CallsAt("fetch_ticker_data", i)) <= 1
                 /\ Len(CallsAt("update_cache", i)) <= 1
            /\ Len(RenderedTable) <= 1
            /\ pc = "normal_done" =>
                 /\ Len(RenderedTable) = 1
                 /\ out[1].kind = "table"
                 /\ Len(out) <= 2
                 /\ Len(out) = 2 => out[2].kind = "warning")
    /\ [][(NormalMode /\ runVars' # runVars) => NormalRank' < NormalRank]_vars

\* a run over two tickers has returned after one fetch and one update_cache
\* call for each ticker and one render
C39_Witness ==
    /\ pc = "normal_done"
    /\ Len(tickers) = 2
    /\ \A i \in 1..2 :
         /\ Len(CallsAt("fetch_ticker_data", i)) = 1
         /\ Len(CallsAt("update_cache", i)) = 1
    /\ out = <<[kind |-> "table", rows |-> data]>>

----------------------------------------------------------------------------
(* Properties of the live price table and the streaming thread (checked    *)
(* under StreamSpec)                                                       *)

\* a trade for ticker t has been received and is still to be stored
Pending(t) ==
    \E k \in 1..Len(listener.pending) : listener.pending[k].s = t

\* C31: after any sequence of delivered trade ticks get_latest_price(t)
\* returns the price of the most recently delivered tick for t (within one
\* message, the last trade for t in the message's list), and None if no
\* tick for t has ever been delivered; ticks for other tickers never change
\* the value read for t
C31_LatestTick ==
    /\ [](\A t \in Symbols :
            ~Pending(t) =>
                get_latest_price(latest_prices, t) = DictGet(received, t))
    /\ [][\A t \in Symbols :
            get_latest_price(latest_prices', t)
                    # get_latest_price(latest_prices, t) =>
                /\ listener.pc = "set"
                /\ Head(listener.pending).s = t
                /\ get_latest_price(latest_prices', t)
                     = Some(Head(listener.pending).p)]_vars

\* the render pass has read AAPL at 121 and a later tick for AAPL at 90 has
\* been stored since; no tick for MSFT has been delivered
C31_Witness ==
    /\ listener.pc = "recv"
    /\ fresh = DictSet(EmptyDict, "AAPL", Some([p |-> 90, asleep |-> FALSE]))
    /\ get_latest_price(latest_prices, "AAPL") = Some(90)
    /\ get_latest_price(latest_prices, "MSFT") = None
    /\ Len(data) = 1
    /\ data[1].current_price = Some(121)

\* the render loop / the streaming thread takes a step
RenderLoopStep == <<pc, idx, data, wake>>' # <<pc, idx, data, wake>>
ListenerStep == listener' # listener

\* C32: the lock of the live price table is held only for a single get or a
\* single set and never across a render pass: its holder is inside
\* get_latest_price or at the assignment of one trade, can always take its
\* next step, and that step releases the lock; the other thread's steps
\* leave the lock alone; and some step is possible in every state, so no
\* interleaving of the writer and the render loop deadlocks
C32_LockPerAccess ==
    /\ [](/\ lock \in {None, Some("main"), Some("listener")}
          /\ lock = Some("main") <=> pc = "watch_get"
          /\ lock = Some("listener") <=> listener.pc = "set"
          /\ lock = Some("main") => ENABLED GetLatestPriceReturn
          /\ lock = Some("listener") => ENABLED WsSet
          /\ ENABLED StreamNext)
    /\ [][/\ (lock = Some("main") /\ RenderLoopStep) => lock' = None
          /\ (lock = Some("listener") /\ ListenerStep) => lock' = None
          /\ (lock = Some("main") /\ ~RenderLoopStep) => lock' = lock
          /\ (lock = Some("listener") /\ ~ListenerStep) => lock' = lock]_vars

\* the render loop has read AAPL and waits for the lock to read MSFT, while
\* the streaming thread holds it to store a tick for MSFT
C32_Witness ==
    /\ pc = "watch_build"
    /\ idx = 2
    /\ data[1].current_price = Some(110)
    /\ ~IsFailure(static_data["MSFT"])
    /\ lock = Some("listener")
    /\ Head(listener.pending) = [s |-> "MSFT", p |-> 121]

\* the last tick stored for ticker t was stored while the render loop slept
StoredAsleep(t) == DictGet(fresh, t) # None /\ fresh[t][1].asleep

\* C33: the streaming task keeps running while the render loop sleeps:
\* during the sleep every step of the streaming thread stays possible, a
\* trade message included; and a tick stored for ticker t during the sleep
\* after a render is the current price of t's row in the next render,
\* unless a later tick for t is stored before that read
C33_StreamsDuringSleep ==
    /\ [](pc = "watch_sleep" =>
            /\ listener.pc = "connect" => ENABLED WsConnect
            /\ listener.pc = "subscribe" => ENABLED WsSubscribe
            /\ listener.pc = "recv" =>
                 \A m \in StreamMessages : ENABLED WsRecv(m)
            /\ listener.pc = "trade" => ENABLED WsAcquire
            /\ listener.pc = "set" => ENABLED WsSet)
    /\ [][\A i \in 1..Len(tickers) :
            (pc = "watch_get" /\ idx = i /\ idx' = i + 1
                /\ StoredAsleep(tickers[i].ticker)) =>
                data'[i].current_price = Some(fresh[tickers[i].ticker][1].p)]_vars

\* the only tick stored since the session began, AAPL at 121, was stored
\* while the render loop slept, and a render pass after that sleep has read
\* AAPL at 121
C33_Witness ==
    /\ pc = "watch_build"
    /\ idx = 2
    /\ fresh = DictSet(EmptyDict, "AAPL", Some([p |-> 121, asleep |-> TRUE]))
    /\ received = DictSet(EmptyDict, "AAPL", Some(121))
    /\ data[1].current_price = Some(121)

\* the streaming thread has no connection on which it receives
Disconnected == listener.pc \in {"sleep", "connect", "subscribe"}

\* C40: entries of the live price table are never removed or reset: once a
\* tick for ticker t has been stored get_latest_price(t) is never None
\* again, every later read of t in the render loop gives the row the
\* table's price and not the snapshot's, and while the streaming thread is
\* disconnected the table keeps the last price received for each ticker
C40_PricesPersist ==
    /\ [][\A t \in Symbols :
            get_latest_price(latest_prices, t) # None =>
                get_latest_price(latest_prices', t) # None]_vars
    /\ [][\A i \in 1..Len(tickers) :
            (pc = "watch_get" /\ idx = i /\ idx' = i + 1
                /\ DictGet(fresh, tickers[i].ticker) # None) =>
                /\ data'[i].current_price
                     = get_latest_price(latest_prices, tickers[i].ticker)
                /\ data'[i].current_price # None
                /\ data'[i].current_price
                     # static_data[tickers[i].ticker].initial_current_price]_vars
    /\ [](Disconnected =>
            \A t \in Symbols :
                get_latest_price(latest_prices, t) = DictGet(received, t))

\* the connection failed at least two seconds ago and the streaming thread
\* is still in its time.sleep(5); the render loop, which renders every
\* second, has since rendered AAPL at 90, the last price received for it
C40_Witness ==
    /\ listener.pc = "sleep"
    /\ listener.wake <= now + (ReconnectDelaySec - 2) * TicksPerSec
    /\ pc = "watch_sleep"
    /\ watchInterval = Some(1)
    /\ out[Len(out)].kind = "table"
    /\ data[1].current_price = Some(90)
    /\ DictGet(received, "AAPL") = Some(90)

----------------------------------------------------------------------------
(* Reconnection of the streaming thread (checked under StreamLiveSpec)     *)

\* the streaming thread receives on a connection on which it has subscribed
\* to every configured symbol, in the configured order
Subscribed == listener.pc = "recv" /\ listener.sent = ws.tickers

\* C34: after every connection or receive failure the listener waits the
\* fixed 5-second delay, opens a new connection and subscribes again to
\* every configured symbol before receiving; it never gives up, so under
\* fairness a transport failure is always eventually followed by a fresh
\* subscription to all symbols; and the failure changes nothing the render
\* loop reads or holds
C34_Reconnects ==
    /\ [][(listener.pc # "sleep" /\ listener.pc' = "sleep") =>
            /\ listener.pc \in {"connect", "subscribe", "recv"}
            /\ listener.wake' = now + ReconnectDelaySec * TicksPerSec
            /\ UNCHANGED <<pc, idx, data, wake, args, calls, failed_refreshes,
                           static_data, latest_prices, watchInterval, lock>>]_vars
    /\ [][(listener.pc = "sleep" /\ listener.pc' = "sleep"
                /\ listener.wake' # listener.wake) =>
            /\ listener.wake' = listener.wake - TicksPerSec
            /\ wake' = wake - TicksPerSec]_vars
    /\ [][(listener.pc = "sleep" /\ listener.pc' # "sleep") =>
            /\ now >= listener.wake
            /\ listener.pc' = "connect"]_vars
    /\ [][(listener.pc = "connect" /\ listener.pc' # "connect") =>
            \/ listener.pc' = "sleep"
            \/ listener.pc' = "subscribe" /\ listener.sent' = <<>>]_vars
    /\ [](listener.pc \in {"recv", "trade", "set"} => listener.sent = ws.tickers)
    /\ [](listener.pc \in {"connect", "subscribe", "recv", "trade", "set",
                           "sleep"})
    /\ (listener.pc = "sleep") ~> Subscribed

\* a tick had been received, so the connection failed after the thread had
\* subscribed; it has slept, connected again and sent the first of its
\* subscriptions on the new connection
C34_Witness ==
    /\ listener.pc = "subscribe"
    /\ listener.sent = <<"AAPL">>
    /\ now >= listener.wake
    /\ received = DictSet(EmptyDict, "AAPL", Some(90))

====
